---- MODULE Spec2Model ----
(***************************************************************************)
(* A model of the heuristic field-extraction engine of                     *)
(* src/extract_html_procurement.py (ProcurementExtractor and its helpers)  *)
(* and of the batch drivers around it.                                     *)
(*                                                                         *)
(* Text.  A Python str is modelled as a tuple of characters; a character   *)
(* is a one-character TLA+ string for ASCII and a romanised name for every *)
(* other character, so len(), find(), slicing and the regular expressions  *)
(* of the source are computed on the same positions as in the program.     *)
(* The names of the non-ASCII characters are:                              *)
(***************************************************************************)
\*   dun=、, ju=。, lbk=《, rbk=》, lpar=（, rpar=）, fcomma=，, fcolon=：
\*   fsemi=；, yi=一, qi=七, wan=万, san=三, zhuan=专, zhong=中, jiu=九
\*   xiang=乡, shi=事, er=二, wu=五, jiao=交, ren=人, jie=介, ta=他
\*   dai=代, jian=件, jia=价, fen=份, hui=会, wei=位, zuo=作, li=例
\*   gong=供, bao=保, xin=信, xiu=修, yuan=元, chong=充, ba=八, gong2=公
\*   liu=六, qi2=其, nei=内, jun=军, guan=冠, kuang=况, fen2=分, bie=别
\*   ban=办, wu2=务, qu=区, yi2=医, shi2=十, dan=单, chang=厂, xian=县
\*   fa=发, ling=另, tai=台, hao=号, si=司, he=合, tong=同, ming=名
\*   gao=告, yuan2=员, zi=咨, pin=品, shang=商, si2=四, tuan=团, yuan3=园
\*   di=地, zhi=址, xing=型, yu=域, pei=培, bei=备, da=大, wei2=委
\*   xue=学, ding=定, shi3=室, jia2=家, rong=容, ju2=局, ceng=层, gong3=工
\*   bi=币, shi4=市, bu=布, ping=平, nian=年, ying=应, fu=府, jian2=建
\*   shi5=式, dai2=待, de=得, xin2=心, zong=总, xi=息, qing=情, cheng=成
\*   suo=所, zhi2=执, ji=技, tou=投, hu=护, zhao=招, an=按, pai=排
\*   gai=改, zheng=政, shu=数, zheng2=整, wen=文, fang=方, shi6=施, wu3=无
\*   ri=日, shi7=时, zan=暂, zui=最, yue=月, you=有, fu2=服, qi3=期
\*   wei3=未, ben=本, ji2=机, quan=权, cai=材, cun=村, gou=构, guo=果
\*   biao=标, dong=栋, xiao=校, ge=格, lou=楼, bi2=比, min=民, qiu=求
\*   ban2=版, pai2=牌, wu4=物, li2=理, yong=用, dian=电, de2=的, mu=目
\*   sheng=省, yan=研, ying2=硬, she=社, ke=科, cheng2=称, cheng3=程, jiu2=究
\*   zhan=站, di2=第, jian3=简, guan2=管, lei=类, xi2=系, zhong2=终, jie2=结
\*   tong2=统, wei4=维, zong2=综, bian=编, hao2=耗, lian=联, gu=股, ying3=营
\*   xing2=行, jie3=街, bu2=补, yao=要, jian4=见, gui=规, xun=训, she2=设
\*   ping2=评, hua=话, xun2=询, xiang2=详, huo=货, gou2=购, zi2=资, lu=路
\*   ruan=软, yun=运, xuan=选, zao=造, dao=道, lin=遴, cai2=采, zhong3=重
\*   liang=量, jin=金, zhen=镇, jian5=间, fu3=附, xian2=限, yuan4=院, zhang=障
\*   ji3=集, xiang3=项, ee=额, mou=某, ce=测, shi8=试, cai3=财, jia3=甲
\*   yi3=乙, bing=丙, dong2=东, xi3=西, nan=南, bei2=北, jing=京, hai=海
\*   cheng4=城, zhu=注

EXTENDS Integers, Sequences, FiniteSets, TLC

-----------------------------------------------------------------------------
(***************************************************************************)
(* Field configuration: FIELD_DEFINITIONS and the tables derived from it.  *)
(***************************************************************************)

\* The nine canonical field names (FIELD_DEFINITIONS[i]["name"]).
F_date == "gong2_gao_shi7_jian5"   \* 公告时间
F_project == "xiang3_mu_ming_cheng2"   \* 项目名称
F_buyer == "cai2_gou2_dan_wei_ming_cheng2"   \* 采购单位名称
F_buyer_addr == "cai2_gou2_dan_wei_di_zhi"   \* 采购单位地址
F_supplier == "gong_ying_shang_ming_cheng2"   \* 供应商名称
F_supplier_addr == "gong_ying_shang_di_zhi"   \* 供应商地址
F_amount == "zhong_biao_jin_ee"   \* 中标金额
F_category == "cai2_gou2_lei_bie"   \* 采购类别
F_subject == "cai2_gou2_biao_de2"   \* 采购标的

FIELD_ORDER == << F_date, F_project, F_buyer, F_buyer_addr, F_supplier, F_supplier_addr, F_amount, F_category, F_subject >>

FieldNames == { FIELD_ORDER[i] : i \in 1..Len(FIELD_ORDER) }

MULTI_VALUE_FIELDS == { }

FIELD_KEYWORDS(field) ==
    CASE field = F_date ->
        << <<"gong2", "gao", "shi7", "jian5">>,
           <<"fa", "bu", "ri", "qi3">>,
           <<"fa", "bu", "shi7", "jian5">>,
           <<"fa", "bu", "gong2", "gao", "shi7", "jian5">>,
           <<"xin", "xi", "shi7", "jian5">> >>
      [] field = F_project ->
        << <<"xiang3", "mu", "ming", "cheng2">>,
           <<"cai2", "gou2", "xiang3", "mu", "ming", "cheng2">>,
           <<"xiang3", "mu", "ming", "cheng2">> >>
      [] field = F_buyer ->
        << <<"cai2", "gou2", "ren", "ming", "cheng2">>,
           <<"cai2", "gou2", "dan", "wei">> >>
      [] field = F_buyer_addr ->
        << <<"cai2", "gou2", "ren", "di", "zhi">>,
           <<"cai2", "gou2", "dan", "wei", "di", "zhi">> >>
      [] field = F_supplier ->
        << <<"gong", "ying", "shang", "ming", "cheng2">>,
           <<"zhong", "biao", "gong", "ying", "shang">>,
           <<"cheng", "jiao", "gong", "ying", "shang">>,
           <<"gong", "ying", "shang">>,
           <<"zhong", "biao", "ren">>,
           <<"cheng", "jiao", "ren">> >>
      [] field = F_supplier_addr ->
        << <<"gong", "ying", "shang", "di", "zhi">>,
           <<"zhong", "biao", "gong", "ying", "shang", "di", "zhi">>,
           <<"cheng", "jiao", "gong", "ying", "shang", "di", "zhi">> >>
      [] field = F_amount ->
        << <<"zhong", "biao", "jin", "ee">>,
           <<"zhong", "biao", "lpar", "cheng", "jiao", "rpar", "jin", "ee">>,
           <<"cheng", "jiao", "jin", "ee">>,
           <<"he", "tong", "jin", "ee">> >>
      [] field = F_category ->
        << <<"cai2", "gou2", "lei", "bie">>,
           <<"cai2", "gou2", "lei", "xing">>,
           <<"cai2", "gou2", "fang", "shi5">>,
           <<"xiang3", "mu", "lei", "bie">>,
           <<"pin", "mu">> >>
      [] field = F_subject ->
        << <<"cai2", "gou2", "biao", "de2">>,
           <<"biao", "de2", "ming", "cheng2">>,
           <<"cai2", "gou2", "nei", "rong">>,
           <<"biao", "de2">> >>
      [] OTHER -> << >>

FIELD_STOPWORDS(field) ==
    CASE field = F_date ->
        << >>
      [] field = F_project ->
        << <<"cai2", "gou2", "dan", "wei">>,
           <<"cai2", "gou2", "ren", "ming", "cheng2">>,
           <<"gong2", "gao", "shi7", "jian5">>,
           <<"gong", "ying", "shang", "ming", "cheng2">>,
           <<"zhong", "biao", "jin", "ee">> >>
      [] field = F_buyer ->
        << <<"cai2", "gou2", "dan", "wei", "di", "zhi">>,
           <<"cai2", "gou2", "ren", "di", "zhi">>,
           <<"gong", "ying", "shang", "ming", "cheng2">>,
           <<"zhong", "biao", "jin", "ee">>,
           <<"cheng", "jiao", "jin", "ee">>,
           <<"cai2", "gou2", "ren", "lian", "xi2", "ren">>,
           <<"cai2", "gou2", "ren", "lian", "xi2", "dian", "hua">>,
           <<"cai2", "gou2", "dan", "wei", "lian", "xi2", "fang", "shi5">>,
           <<"cai2", "gou2", "ren", "lian", "xi2", "fang", "shi5">>,
           <<"lian", "xi2", "fang", "shi5">>,
           <<"lian", "xi2", "dian", "hua">>,
           <<"xiang3", "mu", "lian", "xi2", "ren">>,
           <<"xiang3", "mu", "lian", "xi2", "dian", "hua">>,
           <<"lin", "xuan", "zhuan", "jia2", "ming", "dan">>,
           <<"xing2", "zheng", "qu", "yu">> >>
      [] field = F_buyer_addr ->
        << <<"cai2", "gou2", "dan", "wei", "ming", "cheng2">>,
           <<"gong", "ying", "shang", "ming", "cheng2">>,
           <<"zhong", "biao", "jin", "ee">>,
           <<"cheng", "jiao", "jin", "ee">>,
           <<"cai2", "gou2", "dan", "wei", "lian", "xi2", "fang", "shi5">>,
           <<"cai2", "gou2", "ren", "lian", "xi2", "fang", "shi5">>,
           <<"dai", "li2", "ji2", "gou", "ming", "cheng2">>,
           <<"dai", "li2", "ji2", "gou", "di", "zhi">>,
           <<"dai", "li2", "ji2", "gou">>,
           <<"fu3", "jian">> >>
      [] field = F_supplier ->
        << <<"gong", "ying", "shang", "di", "zhi">>,
           <<"zhong", "biao", "jin", "ee">>,
           <<"cheng", "jiao", "jin", "ee">>,
           <<"cai2", "gou2", "lei", "bie">>,
           <<"cai2", "gou2", "fang", "shi5">>,
           <<"zong2", "he", "ping2", "fen2">>,
           <<"zui", "zhong2", "de", "fen2">> >>
      [] field = F_supplier_addr ->
        << <<"gong", "ying", "shang", "ming", "cheng2">>,
           <<"zhong", "biao", "jin", "ee">>,
           <<"cheng", "jiao", "jin", "ee">>,
           <<"cai2", "gou2", "lei", "bie">> >>
      [] field = F_amount ->
        << >>
      [] field = F_category ->
        << >>
      [] field = F_subject ->
        << <<"pin", "pai2">>,
           <<"gui", "ge", "xing", "hao">>,
           <<"shu", "liang">>,
           <<"zong", "jia">> >>
      [] OTHER -> << >>

\* The fallback patterns of a field.  Each is (labels)[:：]?\s*(value): value is
\* [^\n\r]{least,most}, or \d{4}[年/\-]\d{1,2}[月/\-]\d{1,2} for a date.
FULL_TEXT_PATTERNS(field) ==
    CASE field = F_date ->
        << [labels |-> << <<"gong2", "gao", "shi7", "jian5">>,
                         <<"fa", "bu", "ri", "qi3">>,
                         <<"fa", "bu", "shi7", "jian5">>,
                         <<"xin", "xi", "shi7", "jian5">> >>, date |-> TRUE, least |-> 0, most |-> 0] >>
      [] field = F_project ->
        << [labels |-> << <<"xiang3", "mu", "ming", "cheng2">>,
                         <<"cai2", "gou2", "xiang3", "mu", "ming", "cheng2">> >>, date |-> FALSE, least |-> 2, most |-> 120] >>
      [] field = F_buyer ->
        << [labels |-> << <<"cai2", "gou2", "ren", "ming", "cheng2">>,
                         <<"cai2", "gou2", "dan", "wei">> >>, date |-> FALSE, least |-> 2, most |-> 120] >>
      [] field = F_buyer_addr ->
        << [labels |-> << <<"cai2", "gou2", "ren", "di", "zhi">>,
                         <<"cai2", "gou2", "dan", "wei", "di", "zhi">> >>, date |-> FALSE, least |-> 2, most |-> 160] >>
      [] field = F_supplier ->
        << [labels |-> << <<"gong", "ying", "shang", "ming", "cheng2">>,
                         <<"zhong", "biao", "gong", "ying", "shang">>,
                         <<"cheng", "jiao", "gong", "ying", "shang">>,
                         <<"zhong", "biao", "ren">>,
                         <<"cheng", "jiao", "ren">> >>, date |-> FALSE, least |-> 2, most |-> 160] >>
      [] field = F_supplier_addr ->
        << [labels |-> << <<"gong", "ying", "shang", "di", "zhi">>,
                         <<"zhong", "biao", "gong", "ying", "shang", "di", "zhi">>,
                         <<"cheng", "jiao", "gong", "ying", "shang", "di", "zhi">> >>, date |-> FALSE, least |-> 2, most |-> 200] >>
      [] field = F_amount ->
        << [labels |-> << <<"zhong", "biao", "jin", "ee">>,
                         <<"cheng", "jiao", "jin", "ee">>,
                         <<"he", "tong", "jin", "ee">> >>, date |-> FALSE, least |-> 1, most |-> 80] >>
      [] field = F_category ->
        << [labels |-> << <<"cai2", "gou2", "lei", "bie">>,
                         <<"cai2", "gou2", "fang", "shi5">>,
                         <<"xiang3", "mu", "lei", "bie">>,
                         <<"pin", "mu">> >>, date |-> FALSE, least |-> 1, most |-> 80] >>
      [] field = F_subject ->
        << [labels |-> << <<"cai2", "gou2", "biao", "de2">>,
                         <<"biao", "de2", "ming", "cheng2">>,
                         <<"cai2", "gou2", "nei", "rong">> >>, date |-> FALSE, least |-> 2, most |-> 120] >>
      [] OTHER -> << >>

SUPPLIER_SCORE_TOKENS ==
    << <<"gong2", "si">>,
       <<"you", "xian2">>,
       <<"ji3", "tuan">>,
       <<"zhong", "xin2">>,
       <<"yi2", "yuan4">>,
       <<"da", "xue">>,
       <<"xue", "yuan4">>,
       <<"xue", "xiao">>,
       <<"yan", "jiu2">>,
       <<"ke", "ji">>,
       <<"gu", "fen">>,
       <<"he", "zuo", "she">>,
       <<"zheng", "fu">>,
       <<"wei2", "yuan2", "hui">>,
       <<"shi", "wu2", "suo">>,
       <<"chang">>,
       <<"zhan">>,
       <<"ju2">> >>

ADDRESS_SCORE_TOKENS ==
    << <<"sheng">>,
       <<"shi4">>,
       <<"qu">>,
       <<"xian">>,
       <<"zhen">>,
       <<"xiang">>,
       <<"jie3">>,
       <<"lu">>,
       <<"dao">>,
       <<"da", "dao">>,
       <<"cun">>,
       <<"lou">>,
       <<"dong">>,
       <<"ceng">>,
       <<"dan", "yuan">>,
       <<"shi3">>,
       <<"hao">> >>

LOCATION_SUFFIXES ==
    << <<"sheng">>,
       <<"shi4">>,
       <<"qu">>,
       <<"xian">>,
       <<"zhen">>,
       <<"xiang">>,
       <<"jie3">>,
       <<"dao">>,
       <<"da", "dao">>,
       <<"ban">>,
       <<"yuan3">> >>

ADMIN_LOCATION_SUFFIXES ==
    { "sheng", "shi4", "qu", "xian", "zhen", "xiang" }

\* Insertion order of the CATEGORY_KEYWORDS dict.
CATEGORY_ORDER == << <<"huo", "wu4">>,
       <<"fu2", "wu2">>,
       <<"gong3", "cheng3">> >>

CATEGORY_KEYWORDS(category) ==
    CASE category = <<"huo", "wu4">> ->
        << <<"huo", "wu4">>,
           <<"she2", "bei">>,
           <<"wu4", "zi2">>,
           <<"yong", "pin">>,
           <<"hao2", "cai">> >>
      [] category = <<"fu2", "wu2">> ->
        << <<"fu2", "wu2">>,
           <<"zi", "xun2">>,
           <<"bao", "zhang">>,
           <<"pei", "xun">>,
           <<"yun", "ying3">>,
           <<"wei4", "hu">> >>
      [] category = <<"gong3", "cheng3">> ->
        << <<"gong3", "cheng3">>,
           <<"shi6", "gong3">>,
           <<"gai", "zao">>,
           <<"wei4", "xiu">>,
           <<"jian2", "she2">> >>
      [] OTHER -> << >>

BLOCK_TAGS ==
    { "b", "dd", "div", "dt", "em", "h1", "h2", "h3", "h4", "h5", "h6", "li", "p", "span", "strong", "td", "th" }

TABLE_RANK_HEADERS ==
    { <<"de", "fen2", "pai", "wei">>,
      <<"de", "fen2", "pai", "ming">>,
      <<"de", "fen2", "pai", "ming", "qing", "kuang">>,
      <<"pai", "ming">>,
      <<"zong2", "he", "pai", "ming">> }

TABLE_RANK_ACCEPT ==
    { <<"1">>,
      <<"guan", "jun">>,
      <<"di2", "yi">>,
      <<"di2", "yi", "ming">> }

\* The characters of the model's alphabet in the range U+4E00..U+9FA5.
CJK ==
    { "yi", "qi", "wan", "san", "zhuan", "zhong", "jiu", "xiang", "shi", "er",
      "wu", "jiao", "ren", "jie", "ta", "dai", "jian", "jia", "fen", "hui",
      "wei", "zuo", "li", "gong", "bao", "xin", "xiu", "yuan", "chong", "ba",
      "gong2", "liu", "qi2", "nei", "jun", "guan", "kuang", "fen2", "bie", "ban",
      "wu2", "qu", "yi2", "shi2", "dan", "chang", "xian", "fa", "ling", "tai",
      "hao", "si", "he", "tong", "ming", "gao", "yuan2", "zi", "pin", "shang",
      "si2", "tuan", "yuan3", "di", "zhi", "xing", "yu", "pei", "bei", "da",
      "wei2", "xue", "ding", "shi3", "jia2", "rong", "ju2", "ceng", "gong3", "bi",
      "shi4", "bu", "ping", "nian", "ying", "fu", "jian2", "shi5", "dai2", "de",
      "xin2", "zong", "xi", "qing", "cheng", "suo", "zhi2", "ji", "tou", "hu",
      "zhao", "an", "pai", "gai", "zheng", "shu", "zheng2", "wen", "fang", "shi6",
      "wu3", "ri", "shi7", "zan", "zui", "yue", "you", "fu2", "qi3", "wei3",
      "ben", "ji2", "quan", "cai", "cun", "gou", "guo", "biao", "dong", "xiao",
      "ge", "lou", "bi2", "min", "qiu", "ban2", "pai2", "wu4", "li2", "yong",
      "dian", "de2", "mu", "sheng", "yan", "ying2", "she", "ke", "cheng2", "cheng3",
      "jiu2", "zhan", "di2", "jian3", "guan2", "lei", "xi2", "zhong2", "jie2", "tong2",
      "wei4", "zong2", "bian", "hao2", "lian", "gu", "ying3", "xing2", "jie3", "bu2",
      "yao", "jian4", "gui", "xun", "she2", "ping2", "hua", "xun2", "xiang2", "huo",
      "gou2", "zi2", "lu", "ruan", "yun", "xuan", "zao", "dao", "lin", "cai2",
      "zhong3", "liang", "jin", "zhen", "jian5", "fu3", "xian2", "yuan4", "zhang", "ji3",
      "xiang3", "ee", "mou", "ce", "shi8", "cai3", "jia3", "yi3", "bing", "dong2",
      "xi3", "nan", "bei2", "jing", "hai", "cheng4", "zhu" }

-----------------------------------------------------------------------------
(***************************************************************************)
(* Character classes and the str / re primitives the source uses.          *)
(***************************************************************************)

\* str.isspace(), and \s of the re module on str patterns.
IsSpace(c) == c \in {" ", "nl", "cr", "tab", "fspace", "nbsp"}

\* \d of the re module (the model's alphabet holds ASCII digits only).
IsDigit(c) == c \in {"0", "1", "2", "3", "4", "5", "6", "7", "8", "9"}

DigitValue(c) ==
    CASE c = "0" -> 0 [] c = "1" -> 1 [] c = "2" -> 2 [] c = "3" -> 3
      [] c = "4" -> 4 [] c = "5" -> 5 [] c = "6" -> 6 [] c = "7" -> 7
      [] c = "8" -> 8 [] c = "9" -> 9

DigitChar(n) == << "0", "1", "2", "3", "4", "5", "6", "7", "8", "9" >>[n + 1]

UpperCase ==
    << "A", "B", "C", "D", "E", "F", "G", "H", "I", "J", "K", "L", "M",
       "N", "O", "P", "Q", "R", "S", "T", "U", "V", "W", "X", "Y", "Z" >>

LowerCase ==
    << "a", "b", "c", "d", "e", "f", "g", "h", "i", "j", "k", "l", "m",
       "n", "o", "p", "q", "r", "s", "t", "u", "v", "w", "x", "y", "z" >>

UpperLetters == { UpperCase[i] : i \in 1..Len(UpperCase) }

\* str.lower() on one character.
LowerChar(c) ==
    IF c \in UpperLetters THEN LowerCase[CHOOSE i \in 1..Len(UpperCase) : UpperCase[i] = c]
    ELSE c

SetMin(S) == CHOOSE x \in S : \A y \in S : x <= y

SetMax(S) == CHOOSE x \in S : \A y \in S : x >= y

Take(s, n) == SubSeq(s, 1, n)

Drop(s, n) == SubSeq(s, n + 1, Len(s))

\* s[i:i+len(t)] == t, positions counted from 1.
MatchAt(s, t, i) ==
    /\ i >= 1
    /\ i + Len(t) - 1 <= Len(s)
    /\ SubSeq(s, i, i + Len(t) - 1) = t

\* str.find(t) counted from 1; 0 stands for Python's -1.
Find(s, t) ==
    LET hits == { i \in 1..(Len(s) - Len(t) + 1) : MatchAt(s, t, i) }
    IN  IF hits = {} THEN 0 ELSE SetMin(hits)

\* t in s
Contains(s, t) == Find(s, t) /= 0

\* any(t in s for t in ts), ts a tuple or a set of strings
ContainsAnyOf(s, ts) == \E t \in ts : Contains(s, t)

SeqRange(q) == { q[i] : i \in 1..Len(q) }

\* str.strip(chars) with chars given as a set of characters.
StripChars(s, cs) ==
    LET keep == { i \in 1..Len(s) : s[i] \notin cs }
    IN  IF keep = {} THEN << >> ELSE SubSeq(s, SetMin(keep), SetMax(keep))

WhiteSpace == {" ", "nl", "cr", "tab", "fspace", "nbsp"}

\* str.strip()
Strip(s) == StripChars(s, WhiteSpace)

\* str.replace(old, new) for a one-character old.
ReplaceChar(s, old, new) ==
    [i \in 1..Len(s) |-> IF s[i] = old THEN new ELSE s[i]]

\* str.replace(c, "") for every c of cs.
RemoveChars(s, cs) == SelectSeq(s, LAMBDA c : c \notin cs)

\* str.replace(old, new), old non-empty: left to right, non-overlapping.
RECURSIVE Replace(_, _, _)
Replace(s, old, new) ==
    IF Find(s, old) = 0 THEN s
    ELSE SubSeq(s, 1, Find(s, old) - 1) \o new
         \o Replace(SubSeq(s, Find(s, old) + Len(old), Len(s)), old, new)

\* str.lower()
Lower(s) == [i \in 1..Len(s) |-> LowerChar(s[i])]

\* re.sub(r"\s+", " ", s): of a run of whitespace the last character stays,
\* as a space.
CollapseSpaces(s) ==
    SelectSeq([i \in 1..Len(s) |->
                  IF ~IsSpace(s[i]) THEN s[i]
                  ELSE IF i < Len(s) /\ IsSpace(s[i + 1]) THEN "dropped"
                  ELSE " "],
              LAMBDA c : c /= "dropped")

\* re.sub(r"-+", "-", s)
RECURSIVE CollapseDashes(_)
CollapseDashes(s) ==
    IF s = << >> THEN << >>
    ELSE IF Head(s) = "-" /\ Len(s) >= 2 /\ s[2] = "-"
         THEN CollapseDashes(Tail(s))
         ELSE << Head(s) >> \o CollapseDashes(Tail(s))

\* Optional[T]: None is the empty tuple, a value v is <<v>>.
None == << >>

Some(v) == << v >>

-----------------------------------------------------------------------------
(***************************************************************************)
(* Text normalisers.                                                       *)
(***************************************************************************)

normalize_whitespace(text) ==
    IF text = << >> THEN << >>
    ELSE Strip(CollapseSpaces(ReplaceChar(ReplaceChar(text, "fspace", " "), "nbsp", " ")))

\* [一二三四五六七八九十\d]
IsEnumeratorChar(c) ==
    IsDigit(c) \/ c \in {"yi", "er", "san", "si2", "wu", "liu", "qi", "ba", "jiu", "shi2"}

\* re.sub(r"^[一二三四五六七八九十\d]{1,3}[、.\-]", "", s)
StripEnumerator(s) ==
    LET ks == { k \in 1..3 :
                  /\ k + 1 <= Len(s)
                  /\ \A j \in 1..k : IsEnumeratorChar(s[j])
                  /\ s[k + 1] \in {"dun", ".", "-"} }
    IN  IF ks = {} THEN s ELSE Drop(s, SetMax(ks) + 1)

normalize_label_text(text) ==
    IF text = << >> THEN << >>
    ELSE LET cleaned0 == normalize_whitespace(text)
             cleaned1 == RemoveChars(cleaned0, {"fcolon", ":"})
             cleaned2 == RemoveChars(cleaned1, {"lpar", "rpar"})
             cleaned3 == StripEnumerator(cleaned2)
         IN  Lower(RemoveChars(cleaned3, WhiteSpace))

normalize_text_for_regex(text) ==
    IF text = << >> THEN << >>
    ELSE LET t1 == ReplaceChar(ReplaceChar(text, "fspace", " "), "nbsp", " ")
             t2 == ReplaceChar(t1, "fcolon", ":")
         IN  Strip(CollapseSpaces(t2))

-----------------------------------------------------------------------------
(***************************************************************************)
(* cleanup_field_value                                                     *)
(***************************************************************************)

\* strip_chars = " 、。，；:"
strip_chars == {" ", "dun", "ju", "fcomma", "fsemi", ":"}

\* re.search(r"(代理机构|招标代理|采购代理|中介机构)", s)
AgencyMarkers ==
    { <<"dai", "li2", "ji2", "gou">>, <<"zhao", "biao", "dai", "li2">>,
      <<"cai2", "gou2", "dai", "li2">>, <<"zhong", "jie", "ji2", "gou">> }

\* for stopword in FIELD_STOPWORDS.get(field, ()): cut at its first occurrence
RECURSIVE CutAtStopwords(_, _, _)
CutAtStopwords(cleaned, stopwords, k) ==
    IF k > Len(stopwords) THEN cleaned
    ELSE LET idx == Find(cleaned, stopwords[k])
         IN  IF idx /= 0 THEN CutAtStopwords(Take(cleaned, idx - 1), stopwords, k + 1)
             ELSE CutAtStopwords(cleaned, stopwords, k + 1)

\* cleaned.split(sep, 1) with both sides non-blank: Some(left), else None
SplitLeft(cleaned, sep) ==
    LET idx == Find(cleaned, << sep >>)
    IN  IF /\ idx /= 0
           /\ Strip(Take(cleaned, idx - 1)) /= << >>
           /\ Strip(Drop(cleaned, idx)) /= << >>
        THEN Some(Take(cleaned, idx - 1))
        ELSE None

\* for sep in ("：", ":"): ... cleaned = left; break
CutAtColon(cleaned) ==
    IF SplitLeft(cleaned, "fcolon") /= None THEN SplitLeft(cleaned, "fcolon")[1]
    ELSE IF SplitLeft(cleaned, ":") /= None THEN SplitLeft(cleaned, ":")[1]
    ELSE cleaned

\* for separator in ("；", ";"): cut at the first one found; break
CutAtSemicolon(cleaned) ==
    IF Find(cleaned, << "fsemi" >>) /= 0 THEN Take(cleaned, Find(cleaned, << "fsemi" >>) - 1)
    ELSE IF Find(cleaned, << ";" >>) /= 0 THEN Take(cleaned, Find(cleaned, << ";" >>) - 1)
    ELSE cleaned

\* ("比例", "权重", "得分", "%")
SupplierNoiseTokens ==
    { <<"bi2", "li">>, <<"quan", "zhong3">>, <<"de", "fen2">>, <<"%">> }

\* some run of at least n characters of class P
HasRun(s, n, P(_)) ==
    \E i \in 1..(Len(s) - n + 1) : \A j \in 0..(n - 1) : P(s[i + j])

IsCJK(c) == c \in CJK

\* re.match(r"^[\d\-\s]+$", s)
DigitsDashesOnly(s) ==
    /\ s /= << >>
    /\ \A i \in 1..Len(s) : IsDigit(s[i]) \/ s[i] = "-" \/ IsSpace(s[i])

\* re.match(r"^0\d{2,3}[-\s]?\d{7,8}$", s)
PhoneNumber(s) ==
    \E a \in {2, 3}, sep \in {0, 1}, b \in {7, 8} :
        /\ Len(s) = 1 + a + sep + b
        /\ s[1] = "0"
        /\ \A i \in 2..(1 + a) : IsDigit(s[i])
        /\ sep = 1 => (s[2 + a] = "-" \/ IsSpace(s[2 + a]))
        /\ \A i \in (2 + a + sep)..Len(s) : IsDigit(s[i])

\* Lines 308-317, after the cut at the contact marker.
BuyerNameChecks(cleaned) ==
    IF DigitsDashesOnly(cleaned) \/ PhoneNumber(cleaned) THEN << >>
    ELSE IF /\ cleaned /= << >>
            /\ Len(cleaned) < 20
            /\ HasRun(cleaned, 7, IsDigit)
            /\ ~HasRun(cleaned, 2, IsCJK)
         THEN << >>
         ELSE cleaned

BuyerNameCut(cleaned, idx) == IF idx /= 0 THEN Take(cleaned, idx - 1) ELSE cleaned

BuyerNameCleanup(cleaned) ==
    BuyerNameChecks(BuyerNameCut(cleaned, Find(cleaned, <<"lian", "xi2", "fang", "shi5">>)))

CleanupExempt == {F_project, F_subject}

\* The steps of cleanup_field_value, each on the value the step before left.
CleanupStopwords(field, cleaned) ==
    IF field \notin CleanupExempt
    THEN CutAtStopwords(cleaned, FIELD_STOPWORDS(field), 1) ELSE cleaned

CleanupColon(field, cleaned) ==
    IF field \notin CleanupExempt THEN CutAtColon(cleaned) ELSE cleaned

CleanupSupplierNoise(field, cleaned) ==
    IF /\ field = F_supplier
       /\ ContainsAnyOf(cleaned, SupplierNoiseTokens)
       /\ ~ContainsAnyOf(cleaned, SeqRange(SUPPLIER_SCORE_TOKENS))
    THEN << >> ELSE cleaned

CleanupSemicolon(field, cleaned) ==
    IF field \in {F_supplier_addr, F_buyer_addr} THEN CutAtSemicolon(cleaned) ELSE cleaned

CleanupBuyerName(field, cleaned) ==
    IF field = F_buyer THEN BuyerNameCleanup(cleaned) ELSE cleaned

\* CleanupAgency with nothing blanked.
CleanupAgency_off(field, cleaned) == cleaned

CleanupAgency(field, cleaned) ==
    IF field = F_buyer_addr /\ ContainsAnyOf(cleaned, AgencyMarkers) THEN << >> ELSE cleaned

CleanupSteps(field, cleaned) ==
    IF cleaned = << >> THEN << >>
    ELSE StripChars(
             CleanupBuyerName(field,
                 CleanupSemicolon(field,
                     CleanupSupplierNoise(field,
                         CleanupColon(field,
                             CleanupStopwords(field, cleaned))))),
             strip_chars)

cleanup_field_value(field, value) ==
    CleanupSteps(field, CleanupAgency(field, StripChars(value, strip_chars)))

-----------------------------------------------------------------------------
(***************************************************************************)
(* extract_location_tokens and score_field_value                           *)
(***************************************************************************)

\* The tokens re.finditer(rf"[^\s\d]{{1,6}}{suffix}", text) yields from
\* position p on, each trimmed to its last suffix_len + prefix_len characters.
RECURSIVE LocationMatches(_, _, _)
LocationMatches(text, suffix, p) ==
    IF p > Len(text) THEN {}
    ELSE LET ks == { k \in 1..6 :
                       /\ \A j \in 0..(k - 1) :
                             /\ p + j <= Len(text)
                             /\ ~IsSpace(text[p + j])
                             /\ ~IsDigit(text[p + j])
                       /\ MatchAt(text, suffix, p + k) }
         IN  IF ks = {} THEN LocationMatches(text, suffix, p + 1)
             ELSE LET k == SetMax(ks)
                      token == SubSeq(text, p, p + k + Len(suffix) - 1)
                      suffix_len == Len(suffix)
                      d == Len(token) - suffix_len
                      prefix_len == IF d < 1 THEN 1 ELSE IF d > 2 THEN 2 ELSE d
                      trimmed == SubSeq(token, Len(token) - (suffix_len + prefix_len) + 1,
                                        Len(token))
                  IN  {trimmed} \cup LocationMatches(text, suffix, p + k + Len(suffix))

extract_location_tokens(text) ==
    IF text = << >> THEN {}
    ELSE UNION { LocationMatches(text, LOCATION_SUFFIXES[i], 1) :
                 i \in 1..Len(LOCATION_SUFFIXES) }

\* re.search(r"(详见|另行|暂未|待定|--|见公告|见附件|无)", s)
PlaceholderMarkers ==
    { <<"xiang2", "jian4">>, <<"ling", "xing2">>, <<"zan", "wei3">>, <<"dai2", "ding">>,
      <<"-", "-">>, <<"jian4", "gong2", "gao">>, <<"jian4", "fu3", "jian">>, <<"wu3">> }

PLACEHOLDER_PENALTY == 20

\* placeholder_penalty with the placeholder markers ignored.
placeholder_penalty_none(cleaned) == 0

\* Lines 354-355: what a placeholder marker takes from the score.
placeholder_penalty(cleaned) ==
    IF ContainsAnyOf(cleaned, PlaceholderMarkers) THEN PLACEHOLDER_PENALTY ELSE 0

\* re.search(r"(中标|成交|结果)公告", s)
ResultNoticeMarkers ==
    { <<"zhong", "biao", "gong2", "gao">>, <<"cheng", "jiao", "gong2", "gao">>,
      <<"jie2", "guo", "gong2", "gao">> }

\* re.search(r"V\d+\.\d+", s)
HasVersionNumber(s) ==
    \E i \in 1..Len(s) :
        /\ s[i] = "V"
        /\ \E j \in (i + 2)..(Len(s) - 1) :
              /\ \A k \in (i + 1)..(j - 1) : IsDigit(s[k])
              /\ s[j] = "."
              /\ IsDigit(s[j + 1])

\* re.search(r"（.*?版.*?）", s)
HasBracketedEdition(s) ==
    \E i, j, k \in 1..Len(s) :
        /\ i < j /\ j < k
        /\ s[i] = "lpar" /\ s[j] = "ban2" /\ s[k] = "rpar"
        /\ \A m \in i..k : s[m] /= "nl"

\* re.search(r'(V\d+\.\d+|版本|型号|简称[:：]|规格[:：]|\[|\]|（.*?版.*?）)', s)
LooksLikeSpecification(s) ==
    \/ HasVersionNumber(s)
    \/ ContainsAnyOf(s, { <<"ban2", "ben">>, <<"xing", "hao">>,
                          <<"jian3", "cheng2", ":">>, <<"jian3", "cheng2", "fcolon">>,
                          <<"gui", "ge", ":">>, <<"gui", "ge", "fcolon">>,
                          <<"[">>, <<"]">> })
    \/ HasBracketedEdition(s)

\* ("局", "委", "院", "中心", "办", "公司", "集团", "学校", "医院", "大学", "政府", "管理")
BuyerScoreTokens ==
    << <<"ju2">>, <<"wei2">>, <<"yuan4">>, <<"zhong", "xin2">>, <<"ban">>,
       <<"gong2", "si">>, <<"ji3", "tuan">>, <<"xue", "xiao">>, <<"yi2", "yuan4">>,
       <<"da", "xue">>, <<"zheng", "fu">>, <<"guan2", "li2">> >>

\* the number of tokens of the tuple ts that occur in s
CountTokens(s, ts) == Cardinality({ i \in 1..Len(ts) : Contains(s, ts[i]) })

AddressFields == {F_supplier_addr, F_buyer_addr}

\* The reference part of the score (lines 370-385).
ReferenceScore(field, cleaned, reference) ==
    IF field \in AddressFields /\ reference /= << >>
    THEN LET reference_tokens == extract_location_tokens(reference)
             candidate_tokens == extract_location_tokens(cleaned)
             matches == candidate_tokens \cap reference_tokens
             bonus == IF field = F_buyer_addr THEN 20 ELSE 10
             mismatches == { token \in candidate_tokens :
                               /\ token \notin reference_tokens
                               /\ token[Len(token)] \in ADMIN_LOCATION_SUFFIXES }
         IN  IF reference_tokens = {} THEN 0
             ELSE bonus * Cardinality(matches)
                  - (IF field = F_buyer_addr THEN 6 * Cardinality(mismatches) ELSE 0)
    ELSE 0

score_field_value(field, value, reference) ==
    LET cleaned == Strip(value)
    IN  IF value = << >> \/ cleaned = << >> THEN 0
        ELSE Len(cleaned)
             + (IF field = F_project
                   /\ (Contains(cleaned, <<"xiang3", "mu", "bian", "hao">>)
                       \/ Contains(cleaned, <<"bian", "hao">>))
                THEN 50 ELSE 0)
             + (IF field = F_project /\ ContainsAnyOf(cleaned, ResultNoticeMarkers)
                THEN 30 ELSE 0)
             - placeholder_penalty(cleaned)
             - (IF field = F_subject /\ LooksLikeSpecification(cleaned) THEN 100 ELSE 0)
             + (IF field \in AddressFields
                THEN 3 * CountTokens(cleaned, ADDRESS_SCORE_TOKENS)
                     + (IF \E i \in 1..Len(cleaned) : IsDigit(cleaned[i]) THEN 3 ELSE 0)
                ELSE 0)
             + ReferenceScore(field, cleaned, reference)
             + (IF field = F_supplier
                THEN 4 * CountTokens(cleaned, SUPPLIER_SCORE_TOKENS) ELSE 0)
             + (IF field = F_buyer THEN 2 * CountTokens(cleaned, BuyerScoreTokens) ELSE 0)

-----------------------------------------------------------------------------
(***************************************************************************)
(* Value normalisers: dates, amounts, categories.                          *)
(***************************************************************************)

\* int() of a run of ASCII digits
RECURSIVE DigitsToInt(_)
DigitsToInt(s) ==
    IF s = << >> THEN 0 ELSE 10 * DigitsToInt(Take(s, Len(s) - 1)) + DigitValue(s[Len(s)])

\* str() of a natural number
RECURSIVE IntToDigits(_)
IntToDigits(n) ==
    IF n < 10 THEN << DigitChar(n) >>
    ELSE IntToDigits(n \div 10) \o << DigitChar(n % 10) >>

\* f"{n:0{width}d}"
RECURSIVE ZeroPad(_, _)
ZeroPad(s, width) == IF Len(s) >= width THEN s ELSE ZeroPad(<< "0" >> \o s, width)

AllDigits(s, from, to) == \A i \in from..to : i <= Len(s) /\ IsDigit(s[i])

\* The match of re.search(r"\d{4}-\d{1,2}-\d{1,2}", text) that starts at p,
\* as <<year, month, day>> digit strings; None when there is none at p.
DateShapeAt(text, p) ==
    IF ~(AllDigits(text, p, p + 3) /\ p + 4 <= Len(text) /\ text[p + 4] = "-") THEN None
    ELSE LET m == IF AllDigits(text, p + 5, p + 6) /\ p + 7 <= Len(text) /\ text[p + 7] = "-"
                  THEN 2
                  ELSE IF AllDigits(text, p + 5, p + 5) /\ p + 6 <= Len(text)
                          /\ text[p + 6] = "-"
                       THEN 1 ELSE 0
             q == p + 5 + m + 1
             d == IF AllDigits(text, q, q + 1) THEN 2
                  ELSE IF AllDigits(text, q, q) THEN 1 ELSE 0
         IN  IF m = 0 \/ d = 0 THEN None
             ELSE Some(<< SubSeq(text, p, p + 3), SubSeq(text, p + 5, p + 4 + m),
                          SubSeq(text, q, q + d - 1) >>)

DateShape(text) ==
    LET ps == { p \in 1..Len(text) : DateShapeAt(text, p) /= None }
    IN  IF ps = {} THEN None ELSE DateShapeAt(text, SetMin(ps))

IsLeapYear(y) == (y % 4 = 0 /\ y % 100 /= 0) \/ y % 400 = 0

DaysInMonth(y, m) ==
    IF m = 2 THEN (IF IsLeapYear(y) THEN 29 ELSE 28)
    ELSE IF m \in {4, 6, 9, 11} THEN 30 ELSE 31

\* The value of a raw date after the replacements of lines 403-405.
DateText(value) ==
    LET t0 == Strip(value)
        t1 == ReplaceChar(ReplaceChar(RemoveChars(t0, {"ri"}), "nian", "-"), "yue", "-")
        t2 == ReplaceChar(ReplaceChar(t1, "/", "-"), ".", "-")
    IN  CollapseDashes(t2)

IsAsciiLetter(c) ==
    c \in {"a", "b", "c", "d", "e", "f", "g", "h", "i", "j", "k", "l", "m", "n", "o", "p",
           "q", "r", "s", "t", "u", "v", "w", "x", "y", "z", "A", "B", "V"}

\* The raw dates whose parse the model decides: those holding a year-month-day
\* shape, which dateutil reads year first, and those holding neither a digit nor
\* an ASCII letter, in which the fuzzy parser finds no date token at all.
DateParseModelled(value) ==
    \/ DateShape(DateText(value)) /= None
    \/ \A i \in 1..Len(value) : ~IsDigit(value[i]) /\ ~IsAsciiLetter(value[i])

\* FormatDate without the zero padding of month and day.
FormatDate_unpadded(year, month, day) ==
    IF year < 1 \/ month < 1 \/ month > 12 \/ day < 1 \/ day > 31 THEN None
    ELSE Some(IntToDigits(year) \o << "nian" >> \o IntToDigits(month) \o << "yue" >>
              \o IntToDigits(day) \o << "ri" >>)

\* Lines 408-411 for the date dateutil reads: the formatted date, or None for
\* the ValueError of a day or month out of range.
FormatDate(year, month, day) ==
    IF year < 1 \/ month < 1 \/ month > 12 \/ day < 1 \/ day > DaysInMonth(year, month)
    THEN None
    ELSE Some(ZeroPad(IntToDigits(year), 4) \o << "nian" >>
              \o ZeroPad(IntToDigits(month), 2) \o << "yue" >>
              \o ZeroPad(IntToDigits(day), 2) \o << "ri" >>)

\* shape = None: date_parser.parse raises ValueError.
DateOfShape(shape) ==
    IF shape = None THEN None
    ELSE FormatDate(DigitsToInt(shape[1][1]), DigitsToInt(shape[1][2]),
                    DigitsToInt(shape[1][3]))

\* Optional[str]: None, or Some("YYYY年MM月DD日").
normalize_date_text(value) ==
    IF value = << >> \/ Strip(value) = << >> THEN None
    ELSE DateOfShape(DateShape(DateText(value)))

\* [\d,.]
IsNumberChar(c) == IsDigit(c) \/ c = "," \/ c = "."

\* The end of the maximal run of [\d,.] that starts at p.
RECURSIVE NumberRunEnd(_, _)
NumberRunEnd(text, p) ==
    IF p + 1 <= Len(text) /\ IsNumberChar(text[p + 1]) THEN NumberRunEnd(text, p + 1) ELSE p

\* Decimal(number): None on InvalidOperation, else Some(<<digits, scale>>) with
\* value digits / 10^scale.
ParseDecimal(number) ==
    LET dots == { i \in 1..Len(number) : number[i] = "." }
        digits == RemoveChars(number, {"."})
    IN  IF Cardinality(dots) > 1 \/ digits = << >>
           \/ \E i \in 1..Len(digits) : ~IsDigit(digits[i])
        THEN None
        ELSE Some(<< DigitsToInt(digits),
                     IF dots = {} THEN 0 ELSE Len(number) - SetMax(dots) >>)

RECURSIVE Pow10(_)
Pow10(n) == IF n = 0 THEN 1 ELSE 10 * Pow10(n - 1)

\* f"{amount:.2f}" of the decimal digits / 10^scale (ROUND_HALF_EVEN).
FormatTwoPlaces(digits, scale) ==
    LET cents == IF scale <= 2 THEN digits * Pow10(2 - scale)
                 ELSE LET unit == Pow10(scale - 2)
                          q == digits \div unit
                          r == digits % unit
                      IN  IF 2 * r > unit \/ (2 * r = unit /\ q % 2 = 1) THEN q + 1 ELSE q
    IN  IntToDigits(cents \div 100) \o << "." >> \o ZeroPad(IntToDigits(cents % 100), 2)

WAN_YUAN_FACTOR == 10000

\* unit_factor with every unit read as 元.
unit_factor_one(wan) == 1

\* Lines 432-433: the factor of the unit; wan says that the unit is 万元.
unit_factor(wan) == IF wan THEN WAN_YUAN_FACTOR ELSE 1

\* The first position from p on that holds one of [\d,.], or the position
\* after the text.
NextNumberChar(text, p) ==
    IF \A j \in p..Len(text) : ~IsNumberChar(text[j]) THEN Len(text) + 1
    ELSE SetMin({ j \in p..Len(text) : IsNumberChar(text[j]) })

\* The loop of lines 423-436 over the matches of r"([\d,.]+)(万元|元)?" from p on.
RECURSIVE AmountMatches(_, _, _)
AmountMatches(text, p, results) ==
    IF p > Len(text) THEN results
    ELSE IF ~IsNumberChar(text[p]) THEN AmountMatches(text, NextNumberChar(text, p), results)
    ELSE LET e == NumberRunEnd(text, p)
             number == RemoveChars(SubSeq(text, p, e), {","})
             wan == MatchAt(text, <<"wan", "yuan">>, e + 1)
             yuan == MatchAt(text, <<"yuan">>, e + 1)
             next == e + 1 + (IF wan THEN 2 ELSE IF yuan THEN 1 ELSE 0)
             amount == ParseDecimal(number)
             normalized == FormatTwoPlaces(
                               amount[1][1] * unit_factor(wan),
                               amount[1][2])
         IN  IF amount = None THEN AmountMatches(text, next, results)
             ELSE IF normalized \in SeqRange(results) THEN AmountMatches(text, next, results)
             ELSE AmountMatches(text, next, Append(results, normalized))

normalize_amounts(raw) ==
    IF raw = << >> THEN << >>
    ELSE LET t0 == RemoveChars(raw, {",", " "})
             t1 == Replace(t0, <<"ren", "min", "bi">>, << >>)
             t2 == Replace(t1, <<"wan", "yuan", "zheng2">>, <<"wan", "yuan">>)
         IN  AmountMatches(t2, 1, << >>)

CAT_GOODS == <<"huo", "wu4">>          \* "货物"

CAT_SERVICE == <<"fu2", "wu2">>        \* "服务"

CAT_WORKS == <<"gong3", "cheng3">>     \* "工程"

CAT_OTHER == <<"qi2", "ta">>           \* "其他"

\* "货物类", "服务类", "工程类"
ExplicitCategory(text) ==
    IF Contains(text, CAT_GOODS \o <<"lei">>) THEN Some(CAT_GOODS)
    ELSE IF Contains(text, CAT_SERVICE \o <<"lei">>) THEN Some(CAT_SERVICE)
    ELSE IF Contains(text, CAT_WORKS \o <<"lei">>) THEN Some(CAT_WORKS)
    ELSE None

\* extract_categories without lines 447-452: the keywords decide alone.
extract_categories_keywords_only(raw) ==
    IF raw = << >> THEN << >>
    ELSE SelectSeq(CATEGORY_ORDER,
                   LAMBDA category :
                       \E k \in 1..Len(CATEGORY_KEYWORDS(category)) :
                           Contains(Lower(normalize_whitespace(raw)),
                                    Lower(CATEGORY_KEYWORDS(category)[k])))

extract_categories(raw) ==
    IF raw = << >> THEN << >>
    ELSE LET text == Lower(RemoveChars(raw, WhiteSpace))
             text_with_space == Lower(normalize_whitespace(raw))
         IN  IF ExplicitCategory(text) /= None THEN << ExplicitCategory(text)[1] >>
             ELSE SelectSeq(CATEGORY_ORDER,
                            LAMBDA category :
                                \E k \in 1..Len(CATEGORY_KEYWORDS(category)) :
                                    Contains(text_with_space,
                                             Lower(CATEGORY_KEYWORDS(category)[k])))

-----------------------------------------------------------------------------
(***************************************************************************)
(* label_to_field                                                          *)
(***************************************************************************)

NoField == "None"

EXACT_MATCH_BONUS == 100

\* The score one alias would give a label if the branch of lines 477-490 had
\* no condition on the address fields.
AliasScore_unrestricted(field, alias_norm, label, normalized) ==
    IF alias_norm = << >> THEN 0
    ELSE IF normalized = alias_norm THEN Len(alias_norm) + EXACT_MATCH_BONUS
    ELSE IF Contains(normalized, alias_norm) THEN Len(alias_norm)
    ELSE IF Contains(alias_norm, normalized) THEN Len(normalized)
    ELSE 0

\* The score one alias gives a label (0: the alias is skipped); alias_norm is
\* normalize_label_text(alias).
AliasScore(field, alias_norm, label, normalized) ==
    IF alias_norm = << >> THEN 0
    ELSE IF normalized = alias_norm THEN Len(alias_norm) + EXACT_MATCH_BONUS
    ELSE IF Contains(normalized, alias_norm) THEN Len(alias_norm)
    ELSE IF Contains(alias_norm, normalized)
         THEN IF field = F_buyer_addr
                 /\ ~(Contains(label, <<"cai2", "gou2">>) \/ Contains(label, <<"cai2", "gou2", "ren">>))
              THEN 0
              ELSE IF field = F_supplier_addr
                      /\ ~(Contains(label, <<"gong", "ying", "shang">>)
                           \/ Contains(label, <<"zhong", "biao", "gong", "ying", "shang">>)
                           \/ Contains(label, <<"cheng", "jiao", "gong", "ying", "shang">>))
                   THEN 0
                   ELSE Len(normalized)
    ELSE 0

\* All <<field, normalize_label_text(alias)>> pairs in the iteration order of
\* FIELD_KEYWORDS.items() and of each field's aliases.
RECURSIVE AliasPairsFrom(_)
AliasPairsFrom(i) ==
    IF i > Len(FIELD_ORDER) THEN << >>
    ELSE [k \in 1..Len(FIELD_KEYWORDS(FIELD_ORDER[i])) |->
             << FIELD_ORDER[i], normalize_label_text(FIELD_KEYWORDS(FIELD_ORDER[i])[k]) >>]
         \o AliasPairsFrom(i + 1)

AliasPairs == AliasPairsFrom(1)

\* The loop of lines 468-495 from pair k on, carrying <<best_field, best_score>>.
RECURSIVE BestAlias(_, _, _, _)
BestAlias(label, normalized, k, best) ==
    IF k > Len(AliasPairs) THEN best
    ELSE LET score == AliasScore(AliasPairs[k][1], AliasPairs[k][2], label, normalized)
         IN  IF score > best[2]
             THEN BestAlias(label, normalized, k + 1, << AliasPairs[k][1], score >>)
             ELSE BestAlias(label, normalized, k + 1, best)

label_to_field(label) ==
    LET normalized == normalize_label_text(label)
    IN  IF normalized = << >> THEN NoField
        ELSE BestAlias(label, normalized, 1, << NoField, 0 >>)[1]

-----------------------------------------------------------------------------
(***************************************************************************)
(* FieldValue and ProcurementExtractor.add_field                           *)
(*                                                                         *)
(* A FieldValue is [multi, entries], entries a tuple of <<order, text>>.   *)
(* The operators on an extractor take and return self = [fields, counter]. *)
(***************************************************************************)

EntryTexts(entries) == { entries[i][2] : i \in 1..Len(entries) }

FieldValue_add(self, value, order) ==
    IF value = << >> THEN self
    ELSE IF Strip(value) = << >> THEN self
    ELSE IF self.entries /= << >> /\ ~self.multi THEN self
    ELSE IF self.multi /\ Strip(value) \in EntryTexts(self.entries) THEN self
    ELSE [self EXCEPT !.entries = Append(@, << order, Strip(value) >>)]

\* "|".join(parts)
RECURSIVE JoinBar(_)
JoinBar(parts) ==
    IF parts = << >> THEN << >>
    ELSE IF Len(parts) = 1 THEN parts[1]
    ELSE parts[1] \o << "|" >> \o JoinBar(Tail(parts))

\* The entries' texts in ascending order index (sorted() is stable).
RECURSIVE SortedTexts(_)
SortedTexts(entries) ==
    IF entries = << >> THEN << >>
    ELSE LET lo == SetMin({ entries[i][1] : i \in 1..Len(entries) })
             k == SetMin({ i \in 1..Len(entries) : entries[i][1] = lo })
         IN  << entries[k][2] >>
             \o SortedTexts(SubSeq(entries, 1, k - 1) \o SubSeq(entries, k + 1, Len(entries)))

\* The first occurrence of every text, in order.
RECURSIVE Unique(_)
Unique(texts) ==
    IF texts = << >> THEN << >>
    ELSE LET init == Unique(Take(texts, Len(texts) - 1))
         IN  IF texts[Len(texts)] \in SeqRange(init) THEN init
             ELSE Append(init, texts[Len(texts)])

FieldValue_get(self) ==
    IF self.entries = << >> THEN << >>
    ELSE IF self.multi THEN JoinBar(Unique(SortedTexts(self.entries)))
    ELSE self.entries[1][2]

\* self.fields of a new extractor (line 502)
EmptyFields == [name \in FieldNames |-> [multi |-> name \in MULTI_VALUE_FIELDS, entries |-> << >>]]

\* The candidate values of a raw value (lines 516-525).
add_field_values(field, raw_value) ==
    IF field = F_date
    THEN (IF normalize_date_text(raw_value) /= None
          THEN << normalize_date_text(raw_value)[1] >> ELSE << >>)
    ELSE IF field = F_amount THEN normalize_amounts(raw_value)
    ELSE IF field = F_category THEN extract_categories(raw_value)
    ELSE LET cleaned == cleanup_field_value(field, normalize_whitespace(raw_value))
         IN  IF cleaned /= << >> THEN << cleaned >> ELSE << >>

\* The reference string of an address field (lines 526-534).
add_field_reference(self, field) ==
    IF field = F_buyer_addr /\ self.fields[F_buyer].entries /= << >>
    THEN self.fields[F_buyer].entries[1][2]
    ELSE IF field = F_supplier_addr /\ self.fields[F_supplier].entries /= << >>
    THEN self.fields[F_supplier].entries[1][2]
    ELSE << >>

\* self._next_order()
next_order(self) == [self EXCEPT !.counter = @ + 1]

\* add_field_offer with every candidate appended to the store.
add_field_offer_appending(self, field, value, reference) ==
    [next_order(self) EXCEPT
        !.fields[field].entries = Append(@, << self.counter + 1, Strip(value) >>)]

\* add_field_offer with the comparison candidate_score >= existing_score.
add_field_offer_on_tie(self, field, value, reference) ==
    LET field_store == self.fields[field]
    IN  IF field_store.entries /= << >> /\ ~field_store.multi
        THEN IF score_field_value(field, value, reference)
                  >= score_field_value(field, field_store.entries[1][2], reference)
             THEN [next_order(self) EXCEPT
                      !.fields[field].entries[1] = << self.counter + 1, Strip(value) >>]
             ELSE self
        ELSE [next_order(self) EXCEPT
                 !.fields[field] = FieldValue_add(@, value, self.counter + 1)]

\* add_field_offer keeping the first candidate whatever its score.
add_field_offer_first_wins(self, field, value, reference) ==
    [next_order(self) EXCEPT !.fields[field] = FieldValue_add(@, value, self.counter + 1)]

\* One round of the loop of lines 535-544.
add_field_offer(self, field, value, reference) ==
    LET field_store == self.fields[field]
    IN  IF field_store.entries /= << >> /\ ~field_store.multi
        THEN LET existing_value == field_store.entries[1][2]
                 existing_score == score_field_value(field, existing_value, reference)
                 candidate_score == score_field_value(field, value, reference)
             IN  IF candidate_score > existing_score
                 THEN [next_order(self) EXCEPT
                          !.fields[field].entries[1] = << self.counter + 1, Strip(value) >>]
                 ELSE self
        ELSE [next_order(self) EXCEPT
                 !.fields[field] = FieldValue_add(@, value, self.counter + 1)]

RECURSIVE add_field_loop(_, _, _, _, _)
add_field_loop(self, field, values, reference, k) ==
    IF k > Len(values) THEN self
    ELSE add_field_loop(add_field_offer(self, field, values[k], reference),
                        field, values, reference, k + 1)

add_field(self, field, raw_value) ==
    IF field \notin DOMAIN self.fields \/ raw_value = << >> THEN self
    ELSE add_field_loop(self, field, add_field_values(field, raw_value),
                        add_field_reference(self, field), 1)

-----------------------------------------------------------------------------
(***************************************************************************)
(* The parsed tree.  An element is a record: a Tag with a name, attributes *)
(* (a sequence of <<name, value>> pairs) and children, or a                *)
(* NavigableString with its text.  An element is identified, as id() does  *)
(* in the source, by its place in the tree: the path of child indices.     *)
(***************************************************************************)

Tag(name, attrs, children) ==
    [kind |-> "tag", name |-> name, attrs |-> attrs, children |-> children, text |-> << >>]

NavigableString(text) ==
    [kind |-> "text", name |-> "", attrs |-> << >>, children |-> << >>, text |-> text]

\* Tag.get(name): None when the attribute is absent.
Tag_get(tag, name) ==
    LET hits == { i \in 1..Len(tag.attrs) : tag.attrs[i][1] = name }
    IN  IF hits = {} THEN None ELSE Some(tag.attrs[SetMin(hits)][2])

\* Concatenation of a sequence of sequences.
RECURSIVE Flatten(_)
Flatten(parts) ==
    IF parts = << >> THEN << >> ELSE Head(parts) \o Flatten(Tail(parts))

\* str.join.
RECURSIVE Join(_, _)
Join(parts, separator) ==
    IF parts = << >> THEN << >>
    ELSE IF Len(parts) = 1 THEN parts[1]
    ELSE parts[1] \o separator \o Join(Tail(parts), separator)

\* Tag.descendants with the element itself first: <<path, element>> pairs in
\* document order.
RECURSIVE Subtree(_, _)
Subtree(element, path) ==
    << << path, element >> >>
        \o Flatten([i \in 1..Len(element.children) |->
                        Subtree(element.children[i], Append(path, i))])

Descendants(element, path) == Tail(Subtree(element, path))

\* Tag.find_all(names): the descendant tags of these names, document order.
find_all(element, path, names) ==
    SelectSeq(Descendants(element, path),
              LAMBDA d : d[2].kind = "tag" /\ d[2].name \in names)

\* Tag._all_strings(strip): the texts of the descendant strings.
all_strings(element, strip) ==
    LET found == SelectSeq(Descendants(element, << >>), LAMBDA d : d[2].kind = "text")
        texts == [i \in 1..Len(found) |->
                     IF strip THEN Strip(found[i][2].text) ELSE found[i][2].text]
    IN  IF strip THEN SelectSeq(texts, LAMBDA t : t /= << >>) ELSE texts

\* Tag.get_text(separator, strip).
get_text(element, separator, strip) == Join(all_strings(element, strip), separator)

\* True when path p is a proper prefix of path q.
IsProperPrefix(p, q) == Len(p) < Len(q) /\ SubSeq(q, 1, Len(p)) = p

-----------------------------------------------------------------------------
(***************************************************************************)
(* _extract_table, first half: the matrix of a table with rowspan and      *)
(* colspan resolved.  Grid rows and columns are counted from 0 as in the   *)
(* source; a grid position holds None or Some(text).                       *)
(***************************************************************************)

\* The strings int() accepts: optional blanks, optional sign, digits.
IsIntLiteral(s) ==
    LET t == Strip(s)
        digits == IF t /= << >> /\ t[1] \in {"+", "-"} THEN Drop(t, 1) ELSE t
    IN  digits /= << >> /\ \A i \in 1..Len(digits) : IsDigit(digits[i])

\* int(s) for a string int() accepts.
IntOfLiteral(s) ==
    LET t == Strip(s)
    IN  IF t[1] = "-" THEN 0 - DigitsToInt(Drop(t, 1))
        ELSE IF t[1] = "+" THEN DigitsToInt(Drop(t, 1))
        ELSE DigitsToInt(t)

\* int(cell.get(name, 1)) raises ValueError.
SpanRaises(cell, name) ==
    Tag_get(cell, name) /= None /\ ~IsIntLiteral(Tag_get(cell, name)[1])

\* int(cell.get(name, 1)) when it does not raise.
Span(cell, name) ==
    IF Tag_get(cell, name) = None THEN 1 ELSE IntOfLiteral(Tag_get(cell, name)[1])

\* matrix[r][c] with r, c counted from 0.
Cell(matrix, r, c) == matrix[r + 1][c + 1]

InGrid(matrix, r, c) == r >= 0 /\ r < Len(matrix) /\ c >= 0 /\ c < Len(matrix[r + 1])

\* The while loop of lines 682-683: the first column at or after col_idx that
\* is outside the row or holds None.
\* SkipOccupied with no column skipped.
SkipOccupied_none(row, col_idx) == col_idx

RECURSIVE SkipOccupied(_, _)
SkipOccupied(row, col_idx) ==
    IF col_idx < Len(row) /\ row[col_idx + 1] /= None
    THEN SkipOccupied(row, col_idx + 1)
    ELSE col_idx

\* The while loop of lines 696-698: rows appended until target_row exists.
EnsureRows(matrix, count) ==
    IF Len(matrix) >= count THEN matrix
    ELSE matrix \o [i \in 1..(count - Len(matrix)) |-> << >>]

\* The while loop of lines 700-702: None appended until the row has width
\* positions.
EnsureWidth(row, width) ==
    IF Len(row) >= width THEN row
    ELSE row \o [i \in 1..(width - Len(row)) |-> None]

\* FillBlock writing the first row of the block only.
FillBlock_first_row_only(matrix, row_idx, col_idx, rowspan, colspan, cell_text) ==
    [r \in 1..Len(matrix) |->
        IF r - 1 = row_idx /\ rowspan > 0
        THEN LET wide == EnsureWidth(matrix[r], col_idx + colspan)
             IN  [c \in 1..Len(wide) |->
                     IF c - 1 >= col_idx /\ c - 1 < col_idx + colspan
                     THEN Some(cell_text) ELSE wide[c]]
        ELSE matrix[r]]

\* Lines 692-706: cell_text written to the rowspan x colspan block whose top
\* left corner is (row_idx, col_idx).
FillBlock(matrix, row_idx, col_idx, rowspan, colspan, cell_text) ==
    LET grown == IF rowspan > 0 THEN EnsureRows(matrix, row_idx + rowspan) ELSE matrix
    IN  [r \in 1..Len(grown) |->
            IF r - 1 >= row_idx /\ r - 1 < row_idx + rowspan
            THEN LET wide == EnsureWidth(grown[r], col_idx + colspan)
                 IN  [c \in 1..Len(wide) |->
                         IF c - 1 >= col_idx /\ c - 1 < col_idx + colspan
                         THEN Some(cell_text) ELSE wide[c]]
            ELSE grown[r]]

\* The body of the loop over the cells of one tr, lines 680-708, on the state
\* [matrix, col_idx, raised]; raised stands for the ValueError of int().
place_cell(state, row_idx, cell) ==
    LET col_idx == SkipOccupied(state.matrix[row_idx + 1], state.col_idx)
        cell_text == normalize_whitespace(get_text(cell, << " " >>, TRUE))
    IN  IF state.raised THEN state
        ELSE IF SpanRaises(cell, "rowspan") \/ SpanRaises(cell, "colspan")
        THEN [state EXCEPT !.raised = TRUE]
        ELSE [matrix |-> FillBlock(state.matrix, row_idx, col_idx,
                                   Span(cell, "rowspan"), Span(cell, "colspan"), cell_text),
              col_idx |-> col_idx + Span(cell, "colspan"),
              raised |-> FALSE]

\* Lines 674-678: a tr begins; its grid row is appended when missing and the
\* column cursor returns to 0.
begin_row(state, row_idx) ==
    [state EXCEPT !.matrix = IF row_idx >= Len(@) THEN Append(@, << >>) ELSE @,
                  !.col_idx = 0]

RECURSIVE place_cells(_, _, _, _)
place_cells(state, row_idx, cells, k) ==
    IF k > Len(cells) \/ state.raised THEN state
    ELSE place_cells(place_cell(state, row_idx, cells[k][2]), row_idx, cells, k + 1)

RECURSIVE build_rows(_, _, _)
build_rows(state, trs, row_idx) ==
    IF row_idx >= Len(trs) \/ state.raised THEN state
    ELSE build_rows(place_cells(begin_row(state, row_idx), row_idx,
                                find_all(trs[row_idx + 1][2], trs[row_idx + 1][1], {"th", "td"}), 1),
                    trs, row_idx + 1)

\* row_texts leaving None in place.
row_texts_keeping_none(row) == row

\* Line 720: the row as it is interpreted, None read as "".
row_texts(row) == [i \in 1..Len(row) |-> IF row[i] = None THEN << >> ELSE row[i][1]]

EmptyMatrix == [matrix |-> << >>, col_idx |-> 0, raised |-> FALSE]

\* Lines 667-708: the matrix of a table element.
build_matrix(table, path) == build_rows(EmptyMatrix, find_all(table, path, {"tr"}), 0)

-----------------------------------------------------------------------------
(***************************************************************************)
(* _extract_table, second half: the rows of the matrix read as header row, *)
(* header-mapped data rows and (label, value) pairs.  What a row offers to *)
(* the stores depends on the row and on header_map, ranking_idx and        *)
(* last_name_field only, so a row is first turned into the sequence of its *)
(* add_field calls, which are then made in order.                          *)
(***************************************************************************)

\* {normalize_label_text(x) for x in TABLE_RANK_HEADERS}
IsRankHeader(cell) ==
    normalize_label_text(cell) \in { normalize_label_text(x) : x \in TABLE_RANK_HEADERS }

\* IsRankAccepted with every rank cell accepted.
IsRankAccepted_any(cell) == TRUE

\* {normalize_label_text(x) for x in TABLE_RANK_ACCEPT}
IsRankAccepted(cell) ==
    normalize_label_text(cell) \in { normalize_label_text(x) : x \in TABLE_RANK_ACCEPT }

\* Lines 721-722: idx -> field for the cells of the row that are labels.
candidate_map(row) ==
    [idx \in { i \in 0..(Len(row) - 1) : label_to_field(row[i + 1]) /= NoField } |->
        label_to_field(row[idx + 1])]

\* Lines 726-729: the first cell of the header row that is a rank header.
header_ranking_idx(row, ranking_idx) ==
    IF \E i \in 1..Len(row) : IsRankHeader(row[i])
    THEN Some(SetMin({ i \in 1..Len(row) : IsRankHeader(row[i]) }) - 1)
    ELSE ranking_idx

\* AdoptsHeader with no row ever adopted: every row is read as data.
AdoptsHeader_never(header_map, row) == FALSE

\* Lines 723-724: the row is adopted as the header row.
AdoptsHeader(header_map, row) ==
    /\ DOMAIN header_map = {}
    /\ DOMAIN candidate_map(row) /= {}
    /\ Cardinality(DOMAIN candidate_map(row)) >= 2 \/ Len(row) > 2

\* RankGateCloses with the gate always open.
RankGateCloses_never(ranking_idx, row) == FALSE

\* Lines 732-735 and 784-787: the row has a ranking cell and it is not an
\* accepted winner marker.
RankGateCloses(ranking_idx, row) ==
    /\ ranking_idx /= None
    /\ ranking_idx[1] < Len(row)
    /\ ~IsRankAccepted(row[ranking_idx[1] + 1])

\* The end of the earliest match of one of the alternatives at or after from;
\* 0 when there is none.
EarliestEnd(s, alternatives, from) ==
    LET ends == { i + Len(t) : i \in from..Len(s), t \in alternatives }
        hits == { e \in ends : \E t \in alternatives : MatchAt(s, t, e - Len(t)) /\ e - Len(t) >= from }
    IN  IF hits = {} THEN 0 ELSE SetMin(hits)

\* re.search of a pattern tok1.*tok2.*...: the tokens found in this order.
RECURSIVE SearchInOrder(_, _, _, _)
SearchInOrder(s, pattern, k, from) ==
    IF k > Len(pattern) THEN TRUE
    ELSE IF EarliestEnd(s, pattern[k], from) = 0 THEN FALSE
    ELSE SearchInOrder(s, pattern, k + 1, EarliestEnd(s, pattern[k], from))

OpeningBrackets == { <<"lbk">>, <<"<">> }

ClosingBrackets == { <<"rbk">>, <<">">> }

\* generic_patterns, lines 747-753.
generic_patterns ==
    { << {<<"an">>}, OpeningBrackets, {<<"zhao", "biao">>}, {<<"wen", "jian">>}, ClosingBrackets, {<<"yao", "qiu">>}, {<<"zhi2", "xing2">>} >>,
      << {<<"an">>}, OpeningBrackets, {<<"tou", "biao">>}, {<<"wen", "jian">>}, ClosingBrackets, {<<"zhi2", "xing2">>} >>,
      << {<<"xiang2", "jian4">>}, {<<"wen", "jian">>} >>,
      << {<<"xiang2", "jian4">>}, {<<"gong2", "gao">>} >>,
      << {<<"jian4">>}, {<<"fu3", "jian">>} >> }

is_generic(value) == \E pattern \in generic_patterns : SearchInOrder(value, pattern, 1, 1)

\* (系统|设备|服务|工程|项目|采购|建设), line 756.
SubjectWords == { <<"xi2", "tong2">>, <<"she2", "bei">>, <<"fu2", "wu2">>, <<"gong3", "cheng3">>, <<"xiang3", "mu">>, <<"cai2", "gou2">>, <<"jian2", "she2">> }

\* (系统|设备|服务|工程|项目|采购|建设|平台|软件|硬件), line 769.
AlternativeWords == SubjectWords \cup { <<"ping", "tai">>, <<"ruan", "jian">>, <<"ying2", "jian">> }

ALTERNATIVE_BONUS == 20

\* Lines 767-773: the score of a cell offered in place of the subject cell.
alternative_score(alt_value) ==
    IF is_generic(alt_value) THEN 0
    ELSE Len(alt_value) + (IF ContainsAnyOf(alt_value, AlternativeWords)
                           THEN ALTERNATIVE_BONUS ELSE 0)

\* Lines 761-765: the cells of the row that may stand in for the subject cell.
alternative_cells(row, idx, header_map) ==
    { alt_idx \in 0..(Len(row) - 1) :
        /\ alt_idx /= idx
        /\ alt_idx \notin DOMAIN header_map
        /\ Strip(row[alt_idx + 1]) /= << >>
        /\ Strip(row[alt_idx + 1]) /= row[idx + 1]
        /\ alternative_score(Strip(row[alt_idx + 1])) > 0 }

\* Lines 775-780: the first cell of the highest score.
best_alternative(row, cells) ==
    Strip(row[1 + SetMin({ a \in cells :
                             \A b \in cells :
                                 alternative_score(Strip(row[a + 1]))
                                     >= alternative_score(Strip(row[b + 1])) })])

\* Lines 745-780: the value offered for a header-mapped cell.
header_value(row, idx, field, header_map) ==
    IF /\ field = F_subject
       /\ \/ is_generic(row[idx + 1])
          \/ Len(Strip(row[idx + 1])) <= 4 /\ ~ContainsAnyOf(row[idx + 1], SubjectWords)
       /\ alternative_cells(row, idx, header_map) /= {}
    THEN best_alternative(row, alternative_cells(row, idx, header_map))
    ELSE row[idx + 1]

\* The indices of a set in ascending order.
RECURSIVE Ascending(_)
Ascending(indices) ==
    IF indices = {} THEN << >>
    ELSE << SetMin(indices) >> \o Ascending(indices \ {SetMin(indices)})

\* Lines 736-741: the header-mapped cells of the row that are not labels.
mapped_cells(row, header_map) ==
    Ascending({ idx \in DOMAIN header_map :
                  idx < Len(row) /\ label_to_field(row[idx + 1]) = NoField })

header_offers_at(row, header_map, indices) ==
    [k \in 1..Len(indices) |->
        [field |-> header_map[indices[k]],
         value |-> header_value(row, indices[k], header_map[indices[k]], header_map),
         via |-> "header"]]

\* Lines 736-782: the add_field calls of a data row under the header map.
header_offers(row, header_map) ==
    header_offers_at(row, header_map, mapped_cells(row, header_map))

\* Line 796.
label_has_agency(label_text) == Contains(label_text, <<"dai", "li2">>)

\* Lines 799-802: last_name_field after a pair whose label is a field label.
name_after(last_name_field, field, label_text) ==
    IF field = F_buyer /\ ~label_has_agency(label_text) THEN "purchaser"
    ELSE IF label_has_agency(label_text) \/ Contains(label_text, <<"dai", "li2", "ji2", "gou">>) THEN "agency"
    ELSE last_name_field

\* Lines 805-811: the pair is skipped.
pair_skipped(field, label_text, last_name_field) ==
    field = F_buyer_addr /\ (label_has_agency(label_text) \/ last_name_field = "agency")

\* pair_step with no pair ever offered.
pair_step_skip(state, label_text, value_text, field) == state

\* Lines 789-812 for one pair, on the state [last_name_field, offers].
pair_step(state, label_text, value_text, field) ==
    IF field = NoField THEN state
    ELSE [last_name_field |-> name_after(state.last_name_field, field, label_text),
          offers |->
              IF pair_skipped(field, label_text,
                              name_after(state.last_name_field, field, label_text))
              THEN state.offers
              ELSE Append(state.offers,
                          [field |-> field, value |-> value_text, via |-> "pair"])]

\* Line 788: for idx in range(0, len(row) - 1, 2).
RECURSIVE pair_scan(_, _, _)
pair_scan(state, row, idx) ==
    IF idx >= Len(row) - 1 THEN state
    ELSE pair_scan(pair_step(state, row[idx + 1], row[idx + 2], label_to_field(row[idx + 1])),
                   row, idx + 2)

\* Lines 783-812: the pairwise scan of a row, after its header-mapped offers.
pair_offers(ctx, row, offers) ==
    IF Len(row) >= 2 /\ ~RankGateCloses(ctx.ranking_idx, row)
    THEN [ctx EXCEPT !.last_name_field =
                         pair_scan([last_name_field |-> ctx.last_name_field, offers |-> offers],
                                   row, 0).last_name_field,
                     !.offers =
                         pair_scan([last_name_field |-> ctx.last_name_field, offers |-> offers],
                                   row, 0).offers]
    ELSE [ctx EXCEPT !.offers = offers]

\* The body of the loop of lines 718-812 for one row (None already read as
\* ""), on ctx = [header_map, ranking_idx, last_name_field, offers]; offers
\* are the add_field calls the row makes, in order.
interpret_row(ctx, row) ==
    IF AdoptsHeader(ctx.header_map, row)
    THEN [header_map |-> candidate_map(row),
          ranking_idx |-> header_ranking_idx(row, ctx.ranking_idx),
          last_name_field |-> ctx.last_name_field,
          offers |-> << >>]
    ELSE IF DOMAIN ctx.header_map /= {} /\ RankGateCloses(ctx.ranking_idx, row)
    THEN [ctx EXCEPT !.offers = << >>]
    ELSE pair_offers(ctx, row,
                     IF DOMAIN ctx.header_map /= {}
                     THEN header_offers(row, ctx.header_map) ELSE << >>)

\* The add_field calls of a row made in order.
RECURSIVE make_offers(_, _, _)
make_offers(self, offers, k) ==
    IF k > Len(offers) THEN self
    ELSE make_offers(add_field(self, offers[k].field, offers[k].value), offers, k + 1)

\* Line 713-716: the state of the row loop before the first row.
NoHeader == [header_map |-> << >>, ranking_idx |-> None, last_name_field |-> "None",
             offers |-> << >>]

\* The loop of lines 718-812 from row k on; state = [ctx, self, raised].
RECURSIVE interpret_rows(_, _, _)
interpret_rows(state, rows, k) ==
    IF k > Len(rows) THEN state
    ELSE interpret_rows(
             [ctx |-> interpret_row(state.ctx, row_texts(rows[k])),
              self |-> make_offers(state.self,
                                   interpret_row(state.ctx, row_texts(rows[k])).offers, 1),
              raised |-> FALSE],
             rows, k + 1)

\* The rows of a matrix interpreted on the stores of self.
rows_into_stores(self, built) ==
    IF built.raised THEN [ctx |-> NoHeader, self |-> self, raised |-> TRUE]
    ELSE interpret_rows([ctx |-> NoHeader, self |-> self, raised |-> FALSE], built.matrix, 1)

\* self._extract_table(table): [self, raised], raised for the ValueError that
\* leaves the method at line 688 or 689.
extract_table(self, table, path) ==
    [self |-> rows_into_stores(self, build_matrix(table, path)).self,
     raised |-> build_matrix(table, path).raised]

-----------------------------------------------------------------------------
(***************************************************************************)
(* ProcurementExtractor._process_text_block                                *)
(***************************************************************************)

Colons == {"fcolon", ":"}

Semicolons == {"fsemi", ";"}

\* str.split / re.split on single characters of seps: the pieces, empty ones
\* included.
RECURSIVE SplitOn(_, _)
SplitOn(s, seps) ==
    IF \A i \in 1..Len(s) : s[i] \notin seps THEN << s >>
    ELSE << Take(s, SetMin({ i \in 1..Len(s) : s[i] \in seps }) - 1) >>
         \o SplitOn(Drop(s, SetMin({ i \in 1..Len(s) : s[i] \in seps })), seps)

\* [piece.strip() for piece in pieces if piece.strip()]
StrippedNonEmpty(pieces) ==
    SelectSeq([i \in 1..Len(pieces) |-> Strip(pieces[i])], LAMBDA p : p /= << >>)

\* Line 605: the stripped non-empty lines of the text.
block_lines(text) == StrippedNonEmpty(SplitOn(ReplaceChar(text, "cr", "nl"), {"nl"}))

\* Lines 608-618: a line that ends with a semicolon takes the next line.
RECURSIVE merge_lines(_, _)
merge_lines(lines, idx) ==
    IF idx > Len(lines) THEN << >>
    ELSE IF lines[idx][Len(lines[idx])] \in Semicolons /\ idx + 1 <= Len(lines)
    THEN << lines[idx] \o << " " >> \o lines[idx + 1] >> \o merge_lines(lines, idx + 2)
    ELSE << lines[idx] >> \o merge_lines(lines, idx + 1)

AgencySectionMarkers == { <<"dai", "li2", "ji2", "gou">>, <<"cai2", "gou2", "dai", "li2">>, <<"zhao", "biao", "dai", "li2">>, <<"zhong", "jie", "ji2", "gou">> }

PurchaserSectionMarkers == { <<"cai2", "gou2", "ren", "xin", "xi">>, <<"cai2", "gou2", "dan", "wei", "xin", "xi">>, <<"xiang3", "mu", "lian", "xi2">>, <<"qi2", "ta", "bu2", "chong">>, <<"fu3", "jian">> }

\* Lines 625-629: in_agency_section after the segment has been looked at.
agency_section(in_agency_section, segment) ==
    IF ContainsAnyOf(segment, PurchaserSectionMarkers) /\ ~Contains(segment, <<"dai", "li2">>)
    THEN FALSE
    ELSE IF ContainsAnyOf(segment, AgencySectionMarkers) THEN TRUE
    ELSE in_agency_section

\* The number of leading characters of s that are in cs.
RECURSIVE LeadingRun(_, _)
LeadingRun(s, cs) ==
    IF s = << >> THEN 0
    ELSE IF Head(s) \in cs THEN 1 + LeadingRun(Tail(s), cs)
    ELSE 0

\* What "[cs]*(.+)" or "[cs]+(.+)" gives (.+) on rest: the greedy run of
\* separators gives its last character back when nothing follows it.
AfterRun(rest, cs) ==
    IF LeadingRun(rest, cs) = Len(rest) THEN Drop(rest, Len(rest) - 1)
    ELSE Drop(rest, LeadingRun(rest, cs))

\* re.match(r"(.{1,40}?)[：:]\s*(.+)", candidate): the lengths the lazy label
\* can have.
ColonSplits(candidate) ==
    { n \in 1..40 : n + 1 < Len(candidate) /\ candidate[n + 1] \in Colons }

\* The groups of the match whose lazy label has the least of these lengths.
colon_groups(candidate, splits) ==
    IF splits = {} THEN None
    ELSE Some([label |-> Take(candidate, SetMin(splits)),
               value |-> AfterRun(Drop(candidate, SetMin(splits) + 1), WhiteSpace)])

\* Line 635: None, or [label, value].
colon_match(candidate) == colon_groups(candidate, ColonSplits(candidate))

NumberedLabels == << <<"gong", "ying", "shang", "ming", "cheng2">>, <<"gong", "ying", "shang", "di", "zhi">>, <<"cai2", "gou2", "dan", "wei", "ming", "cheng2">>, <<"cai2", "gou2", "dan", "wei", "di", "zhi">> >>

\* [：:\s]+(.+) matches rest.
SeparatedValueMatches(rest, cs) ==
    /\ LeadingRun(rest, cs) >= 1
    /\ LeadingRun(rest, cs) < Len(rest) \/ LeadingRun(rest, cs) >= 2

\* The alternatives of the label group that match after a prefix of n
\* characters.
NumberedHits(candidate, n) ==
    { k \in 1..Len(NumberedLabels) :
        /\ MatchAt(candidate, NumberedLabels[k], n + 1)
        /\ SeparatedValueMatches(Drop(candidate, n + Len(NumberedLabels[k])),
                                 Colons \cup WhiteSpace) }

NumberedSplits(candidate) == { n \in 1..40 : NumberedHits(candidate, n) /= {} }

\* str.isdigit() for the characters of the model.
IsDigits(s) == s /= << >> /\ \A i \in 1..Len(s) : IsDigit(s[i])

\* Lines 643-648: the groups of the match with a prefix of n characters and
\* alternative k, kept when the prefix is a number.
numbered_groups(candidate, n, k) ==
    IF IsDigits(Strip(Take(candidate, n)))
    THEN Some([label |-> NumberedLabels[k],
               value |-> AfterRun(Drop(candidate, n + Len(NumberedLabels[k])),
                                  Colons \cup WhiteSpace)])
    ELSE None

numbered_at(candidate, n) == numbered_groups(candidate, n, SetMin(NumberedHits(candidate, n)))

\* Lines 641-648: None, or [label, value] of a numbered label.
numbered_match(candidate) ==
    IF NumberedSplits(candidate) = {} THEN None
    ELSE numbered_at(candidate, SetMin(NumberedSplits(candidate)))

\* first if it is a match, else second.
OrElse(first, second) == IF first /= None THEN first ELSE second

\* Lines 635-648: the label and the value of a candidate.
label_and_value(candidate) == OrElse(colon_match(candidate), numbered_match(candidate))

\* re.match(r"(.{1,40}?)[：:\s]+(.+)", value): the lengths of the lazy label.
ExtraSplits(value) ==
    { n \in 1..40 :
        /\ n + 1 <= Len(value)
        /\ SeparatedValueMatches(Drop(value, n), Colons \cup WhiteSpace) }

\* Lines 654-657: the offer of the value's own label, found to name field.
extra_groups(field, alt_value) ==
    IF field = NoField THEN None
    ELSE Some([field |-> field, value |-> alt_value, via |-> "text"])

extra_at(value, n) ==
    extra_groups(label_to_field(Take(value, n)),
                 AfterRun(Drop(value, n), Colons \cup WhiteSpace))

\* Lines 651-657 for a label that names no field: the offer the value's own
\* label gives, None when it names no field either.
extra_offer(value) ==
    IF ExtraSplits(value) = {} THEN None ELSE extra_at(value, SetMin(ExtraSplits(value)))

\* Lines 649-657 with field = label_to_field(label).
offer_for(field, value) ==
    IF field /= NoField THEN Some([field |-> field, value |-> value, via |-> "text"])
    ELSE extra_offer(value)

\* Lines 649-657: None, or the field and the value of the add_field call.
labelled_offer(matched) ==
    IF matched = None THEN None
    ELSE offer_for(label_to_field(matched[1].label), matched[1].value)

\* section_offers without lines 660-661: the agency section skips nothing.
section_offers_ungated(offer, in_agency_section) == IF offer = None THEN << >> ELSE offer

\* Lines 658-663: the call is left out for a purchaser address in the agency
\* section.
section_offers(offer, in_agency_section) ==
    IF offer = None THEN << >>
    ELSE IF offer[1].field = F_buyer_addr /\ in_agency_section THEN << >>
    ELSE offer

\* Lines 631-663 for one candidate: the add_field calls it makes.
candidate_offers(candidate, in_agency_section) ==
    section_offers(labelled_offer(label_and_value(candidate)), in_agency_section)

\* Line 631: the candidates of a segment.
segment_candidates(segment) == StrippedNonEmpty(SplitOn(segment, Semicolons))

candidates_offers(candidates, in_agency_section) ==
    Flatten([i \in 1..Len(candidates) |-> candidate_offers(candidates[i], in_agency_section)])

segment_offers(segment, in_agency_section) ==
    candidates_offers(segment_candidates(segment), in_agency_section)

\* Lines 623-663: the add_field calls of the segments from k on, entered
\* with the flag as the segments before k left it.
RECURSIVE segments_offers(_, _, _)
segments_offers(merged, k, in_agency_section) ==
    IF k > Len(merged) THEN << >>
    ELSE IF agency_section(in_agency_section, merged[k])
    THEN segment_offers(merged[k], TRUE) \o segments_offers(merged, k + 1, TRUE)
    ELSE segment_offers(merged[k], FALSE) \o segments_offers(merged, k + 1, FALSE)

\* text_block_offers entered with the flag up.
text_block_offers_flag_up(text) == segments_offers(merge_lines(block_lines(text), 1), 1, TRUE)

\* The add_field calls self._process_text_block(text) makes, in order.
text_block_offers(text) == segments_offers(merge_lines(block_lines(text), 1), 1, FALSE)

\* self._process_text_block(text)
process_text_block(self, text) == make_offers(self, text_block_offers(text), 1)

-----------------------------------------------------------------------------
(***************************************************************************)
(* ProcurementExtractor._apply_full_text_patterns                          *)
(*                                                                         *)
(* A match is [from, to, value]: the positions of the whole match in the   *)
(* text and the text of its second group.                                  *)
(***************************************************************************)

LineBreaks == {"nl", "cr"}

At(text, i) == IF i >= 1 /\ i <= Len(text) THEN text[i] ELSE "eof"

DigitAt(text, i) == IsDigit(At(text, i))

\* The length of the run of characters other than those of stops from
\* position i.
RunUpTo(text, i, stops) ==
    IF \A j \in i..Len(text) : text[j] \notin stops THEN Len(text) + 1 - i
    ELSE SetMin({ j \in i..Len(text) : text[j] \in stops }) - i

\* The length of the run of characters other than \n and \r from position i.
ValueRun(text, i) == IF i > Len(text) THEN 0 ELSE RunUpTo(text, i, LineBreaks)

\* The length of the run of whitespace from position i.
SpaceRun(text, i) ==
    IF i > Len(text) THEN 0
    ELSE IF \A j \in i..Len(text) : IsSpace(text[j]) THEN Len(text) + 1 - i
    ELSE SetMin({ j \in i..Len(text) : ~IsSpace(text[j]) }) - i

\* ([^\n\r]{least,most}) at position i: greedy.
text_value(text, i, pattern, run) ==
    IF run < pattern.least THEN None
    ELSE IF run > pattern.most THEN Some([from |-> i, to |-> i + pattern.most - 1])
    ELSE Some([from |-> i, to |-> i + run - 1])

\* \d{1,2} at position i, the last group of the date: greedy.
day_end(text, i) == IF DigitAt(text, i + 1) THEN i + 1 ELSE i

\* (\d{4}[年/\-]\d{1,2}[月/\-]\d{1,2}) at position i.
date_value(text, i) ==
    IF ~(/\ \A k \in 0..3 : DigitAt(text, i + k)
         /\ At(text, i + 4) \in {<<"nian">>[1], "/", "-"}
         /\ DigitAt(text, i + 5))
    THEN None
    ELSE IF /\ DigitAt(text, i + 6)
            /\ At(text, i + 7) \in {<<"yue">>[1], "/", "-"}
            /\ DigitAt(text, i + 8)
    THEN Some([from |-> i, to |-> day_end(text, i + 8)])
    ELSE IF At(text, i + 6) \in {<<"yue">>[1], "/", "-"} /\ DigitAt(text, i + 7)
    THEN Some([from |-> i, to |-> day_end(text, i + 7)])
    ELSE None

\* The second group at position i.
value_at(text, i, pattern) ==
    IF pattern.date THEN date_value(text, i)
    ELSE text_value(text, i, pattern, ValueRun(text, i))

\* \s*(value) at position i: the whitespace run is greedy and gives
\* characters back, one at a time, while the value does not match.
RECURSIVE spaces_then_value(_, _, _, _)
spaces_then_value(text, i, pattern, spaces) ==
    OrElse(value_at(text, i + spaces, pattern),
           IF spaces = 0 THEN None ELSE spaces_then_value(text, i, pattern, spaces - 1))

\* [:：]?\s*(value) at position i: the colon is taken when there is one, and
\* given back when the rest does not match.
tail_at(text, i, pattern) ==
    OrElse(IF At(text, i) \in Colons
           THEN spaces_then_value(text, i + 1, pattern, SpaceRun(text, i + 1))
           ELSE None,
           spaces_then_value(text, i, pattern, SpaceRun(text, i)))

\* The alternatives of the first group with which the pattern matches at
\* position p.
LabelHits(text, p, pattern) ==
    { k \in 1..Len(pattern.labels) :
        /\ MatchAt(text, pattern.labels[k], p)
        /\ tail_at(text, p + Len(pattern.labels[k]), pattern) /= None }

\* The match at position p whose second group is at tail.
match_of(text, p, tail) ==
    [from |-> p, to |-> tail.to, value |-> SubSeq(text, tail.from, tail.to)]

\* pattern.match(text, p) when the pattern matches there with alternative k.
match_with(text, p, pattern, k) ==
    match_of(text, p, tail_at(text, p + Len(pattern.labels[k]), pattern)[1])

\* The positions from pos on at which the pattern matches.
MatchStarts(text, pos, pattern) ==
    { p \in pos..Len(text) : LabelHits(text, p, pattern) /= {} }

\* The match at position p.
match_at(text, p, pattern) == match_with(text, p, pattern, SetMin(LabelHits(text, p, pattern)))

\* pattern.finditer(text) from position pos on: the non-overlapping matches
\* from left to right.
RECURSIVE finditer_from(_, _, _)
matches_from(text, pattern, match) ==
    << match >> \o finditer_from(text, match.to + 1, pattern)

first_of(text, pattern, starts) ==
    IF starts = {} THEN << >>
    ELSE matches_from(text, pattern, match_at(text, SetMin(starts), pattern))

finditer_from(text, pos, pattern) == first_of(text, pattern, MatchStarts(text, pos, pattern))

finditer(text, pattern) == finditer_from(text, 1, pattern)

\* self.fields[field].entries and not self.fields[field].multi
HasSingleEntry(self, field) ==
    self.fields[field].entries /= << >> /\ ~self.fields[field].multi

\* Lines 819-823: the loop over the matches from match k on; after is the
\* extractor after add_field for match k.
RECURSIVE fallback_matches(_, _, _, _)
\* after_match without the break of line 823.
after_match_on(after, field, matches, k) == fallback_matches(after, field, matches, k + 1)

after_match(after, field, matches, k) ==
    IF HasSingleEntry(after, field) THEN after
    ELSE fallback_matches(after, field, matches, k + 1)

fallback_matches(self, field, matches, k) ==
    IF k > Len(matches) THEN self
    ELSE after_match(add_field(self, field, matches[k].value), field, matches, k)

\* Lines 818-825: the loop over the patterns of a field from pattern k on;
\* after is the extractor after the matches of pattern k.
RECURSIVE fallback_patterns(_, _, _, _)
after_pattern(after, field, full_text, k) ==
    IF HasSingleEntry(after, field) THEN after
    ELSE fallback_patterns(after, field, full_text, k + 1)

fallback_patterns(self, field, full_text, k) ==
    IF k > Len(FULL_TEXT_PATTERNS(field)) THEN self
    ELSE after_pattern(fallback_matches(self, field,
                                        finditer(full_text, FULL_TEXT_PATTERNS(field)[k]), 1),
                       field, full_text, k)

\* The loop of line 815 from field k of FULL_TEXT_PATTERNS on: nothing is
\* tried for a field that holds a value.
RECURSIVE fallback_fields(_, _, _)
fallback_fields(self, full_text, k) ==
    IF k > Len(FIELD_ORDER) THEN self
    ELSE IF self.fields[FIELD_ORDER[k]].entries /= << >>
    THEN fallback_fields(self, full_text, k + 1)
    ELSE fallback_fields(fallback_patterns(self, FIELD_ORDER[k], full_text, 1),
                         full_text, k + 1)

\* self._apply_full_text_patterns()
apply_full_text_patterns(self, full_text) == fallback_fields(self, full_text, 1)

-----------------------------------------------------------------------------
(***************************************************************************)
(* ProcurementExtractor: construction, _extract_meta_nodes, _walk_dom and  *)
(* extract.  Here self = [fields, counter, full_text, processed_tables,    *)
(* visited, raised]: visited lists the tables handed to _extract_table and *)
(* the blocks handed to _process_text_block, raised stands for the         *)
(* exception that left the method.                                         *)
(***************************************************************************)

\* BeautifulSoup's root of a parsed document.
Soup(children) == Tag("[document]", << >>, children)

\* ProcurementExtractor(soup)
ProcurementExtractor(soup) ==
    [fields |-> EmptyFields,
     counter |-> 0,
     full_text |-> normalize_text_for_regex(get_text(soup, << "nl" >>, FALSE)),
     processed_tables |-> {},
     visited |-> << >>,
     raised |-> FALSE]

\* re.compile("^name$", re.I) searched in an attribute value: $ matches
\* before a final newline too.
MatchesName(value, name) ==
    \/ Lower(value) = Lower(name)
    \/ Lower(value) = Lower(name) \o << "nl" >>

\* soup.find("meta", attrs={"name": re.compile("^name$", re.I)}): the first
\* such tag in document order, as a tuple of none or one <<path, tag>>.
find_meta(soup, name) ==
    SelectSeq(find_all(soup, << >>, {"meta"}),
              LAMBDA d : /\ Tag_get(d[2], "name") /= None
                         /\ MatchesName(Tag_get(d[2], "name")[1], name))

\* meta.get("content") or meta.get("value"), "" standing for a None or
\* empty outcome.
meta_value(content, value) ==
    IF content /= None /\ content /= Some(<< >>) THEN content[1]
    ELSE IF value /= None THEN value[1]
    ELSE << >>

\* Lines 547-551 and 552-556: the field gets the value of the first meta
\* tag of the name, if there is one and it has a value.
meta_offer(self, field, metas) ==
    IF metas = << >> THEN self
    ELSE add_field(self, field,
                   meta_value(Tag_get(metas[1][2], "content"), Tag_get(metas[1][2], "value")))

\* self._extract_meta_nodes()
extract_meta_nodes(self, soup) ==
    meta_offer(meta_offer(self, F_project, find_meta(soup, <<"A", "r", "t", "i", "c", "l", "e", "T", "i", "t", "l", "e">>)),
               F_date, find_meta(soup, <<"P", "u", "b", "D", "a", "t", "e">>))

\* The element at a path of child indices.
RECURSIVE ElementAt(_, _)
ElementAt(element, path) ==
    IF path = << >> THEN element
    ELSE ElementAt(element.children[Head(path)], Tail(path))

\* element.find_parent("table") is not None
HasTableParent(soup, path) ==
    \E n \in 0..(Len(path) - 1) : ElementAt(soup, SubSeq(path, 1, n)).name = "table"

\* soup.body or soup: the path of the first body tag, of the root if there
\* is none.
body_path(soup) ==
    IF find_all(soup, << >>, {"body"}) = << >> THEN << >>
    ELSE find_all(soup, << >>, {"body"})[1][1]

\* Lines 591-595 for a table not yet processed.
walk_table(self, outcome, path) ==
    [outcome.self EXCEPT
        !.processed_tables = @ \cup {path},
        !.visited = Append(@, [kind |-> "table", path |-> path]),
        !.raised = outcome.raised]

\* Lines 598-601: the text of a block element goes to _process_text_block.
walk_block(self, element, path, text) ==
    IF element.name \in BLOCK_TAGS /\ text /= << >>
    THEN [process_text_block(self, text) EXCEPT
             !.visited = Append(@, [kind |-> "block", path |-> path])]
    ELSE self

\* self._walk_dom(node) from child i of the node on.
RECURSIVE walk_children(_, _, _, _, _)

\* walk_element going on into the tables: a table is extracted and then
\* walked like any other element.
walk_element_into_tables(self, soup, element, path) ==
    IF element.kind /= "tag" THEN self
    ELSE walk_children(
             IF element.name = "table"
             THEN walk_table(self, extract_table(self, element, path), path)
             ELSE walk_block(self, element, path, get_text(element, << "nl" >>, TRUE)),
             soup, element, path, 1)

walk_element(self, soup, element, path) ==
    IF element.kind /= "tag" THEN self
    ELSE IF element.name = "table"
    THEN (IF path \in self.processed_tables THEN self
          ELSE walk_table(self, extract_table(self, element, path), path))
    ELSE IF HasTableParent(soup, path) THEN self
    ELSE walk_children(walk_block(self, element, path,
                                  get_text(element, << "nl" >>, TRUE)),
                       soup, element, path, 1)

walk_children(self, soup, node, path, i) ==
    IF self.raised \/ i > Len(node.children) THEN self
    ELSE walk_children(walk_element(self, soup, node.children[i], Append(path, i)),
                       soup, node, path, i + 1)

\* self._walk_dom(body)
walk_dom(self, soup, path) == walk_children(self, soup, ElementAt(soup, path), path, 1)

\* record_category without the default: the stored category as it is.
record_category_as_stored(stored, full_text_no_space) == stored

\* Lines 568-580: the category of the record, given the stored one and the
\* full text without its whitespace.
record_category(stored, full_text_no_space) ==
    IF stored /= << >> /\ stored /= CAT_OTHER THEN stored
    ELSE IF Contains(full_text_no_space, <<"huo", "wu4", "lei">>) THEN CAT_GOODS
    ELSE IF Contains(full_text_no_space, <<"fu2", "wu2", "lei">>) THEN CAT_SERVICE
    ELSE IF Contains(full_text_no_space, <<"gong3", "cheng3", "lei">>) THEN CAT_WORKS
    ELSE IF stored = << >> THEN CAT_OTHER
    ELSE stored

\* Lines 564-582: the record of the stores.
extract_result(self) ==
    [field \in DOMAIN self.fields |->
        IF field = F_category
        THEN record_category(FieldValue_get(self.fields[field]),
                             RemoveChars(self.full_text, WhiteSpace))
        ELSE FieldValue_get(self.fields[field])]

\* Lines 559-563: the extractor when extract() comes to build the record, or
\* when _extract_table raised.
after_walk(self) ==
    IF self.raised THEN self
    ELSE apply_full_text_patterns(self, self.full_text)

extract_stores(self, soup) ==
    after_walk(walk_dom(extract_meta_nodes(self, soup), soup, body_path(soup)))

\* The outcome of an extract() call: the record, or raised.
outcome_of(self) ==
    IF self.raised THEN [raised |-> TRUE, record |-> << >>]
    ELSE [raised |-> FALSE, record |-> extract_result(self)]

\* extractor.extract()
extract(self, soup) == outcome_of(extract_stores(self, soup))

\* build_record(path), soup being the parsed file.
build_record(soup) == extract(ProcurementExtractor(soup), soup)

-----------------------------------------------------------------------------
(***************************************************************************)
(* Batches: extract_directory and LangExtractPipeline.process_documents.   *)
(* A batch is [stats, records]; stats is [total, success, failed].         *)
(***************************************************************************)

NoStats == [total |-> 0, success |-> 0, failed |-> 0]

\* Lines 835-836 of extract_directory, 248-249 of process_documents.
EmptyBatch == [stats |-> NoStats, records |-> << >>]

\* extract_directory's loop body with a failure that is not counted.
directory_file_uncounted(state, outcome) ==
    IF outcome.raised
    THEN [state EXCEPT !.stats.total = @ + 1]
    ELSE [state EXCEPT !.stats.total = @ + 1,
                       !.records = Append(@, outcome.record),
                       !.stats.success = @ + 1]

\* Lines 838-846: the loop body of extract_directory for a file whose
\* build_record call has this outcome.
directory_file(state, outcome) ==
    IF outcome.raised
    THEN [state EXCEPT !.stats.total = @ + 1, !.stats.failed = @ + 1]
    ELSE [state EXCEPT !.stats.total = @ + 1,
                       !.records = Append(@, outcome.record),
                       !.stats.success = @ + 1]

\* The key of the source file in a record of the pipeline.
F_source == "lai_yuan_wen_jian"   \* 来源文件

\* Line 282: record["来源文件"] = str(path)
with_source(record, path) ==
    [key \in DOMAIN record \cup {F_source} |-> IF key = F_source THEN path ELSE record[key]]

\* Lines 263-286: the loop body of process_documents for a file; convert and
\* extracted are the outcomes of convert_html_file and of extract_record.
pipeline_file(state, path, convert, extracted) ==
    IF convert.raised THEN [state EXCEPT !.stats.failed = @ + 1]
    ELSE IF extracted.raised THEN [state EXCEPT !.stats.failed = @ + 1]
    ELSE [state EXCEPT !.records = Append(@, with_source(extracted.record, path)),
                       !.stats.success = @ + 1]


-----------------------------------------------------------------------------
(***************************************************************************)
(* html_preprocess.collect_html_paths.  A path is the sequence of its      *)
(* parts below the root directory; the last part is the file name.         *)
(***************************************************************************)

\* DEFAULT_PATTERNS (html_preprocess.py line 25)
DEFAULT_PATTERNS == << <<"*", ".", "h", "t", "m", "l">>, <<"*", ".", "h", "t", "m">>, <<"*", ".", "s", "h", "t", "m", "l">>, <<"*", ".", "x", "h", "t", "m", "l">> >>

\* The characters of the sample names, in ascending code point order.
PathChars == << ".", "a", "b", "c", "d", "h", "l", "m", "n", "o", "s", "t", "u", "x" >>

CharRank(c) == CHOOSE i \in 1..Len(PathChars) : PathChars[i] = c

\* str.__lt__: by code point, a proper prefix first
RECURSIVE TextLess(_, _)
TextLess(s, t) ==
    IF t = << >> THEN FALSE
    ELSE IF s = << >> THEN TRUE
    ELSE IF s[1] /= t[1] THEN CharRank(s[1]) < CharRank(t[1])
    ELSE TextLess(Tail(s), Tail(t))

\* Path.__lt__: the parts are compared as a list of strings
RECURSIVE PathLess(_, _)
PathLess(p, q) ==
    IF q = << >> THEN FALSE
    ELSE IF p = << >> THEN TRUE
    ELSE IF p[1] /= q[1] THEN TextLess(p[1], q[1])
    ELSE PathLess(Tail(p), Tail(q))

\* fnmatch of a file name against a pattern whose only wildcard is "*"
RECURSIVE GlobMatch(_, _)
GlobMatch(name, pattern) ==
    IF pattern = << >> THEN name = << >>
    ELSE IF pattern[1] = "*"
    THEN \/ GlobMatch(name, Tail(pattern))
         \/ name /= << >> /\ GlobMatch(Tail(name), pattern)
    ELSE /\ name /= << >>
         /\ name[1] = pattern[1]
         /\ GlobMatch(Tail(name), Tail(pattern))

\* root.rglob(pattern): the paths at any depth whose name matches, each once
rglob(tree, pattern) == { p \in tree : GlobMatch(p[Len(p)], pattern) }

\* sorted(paths)
RECURSIVE SortedPaths(_)
SortedPaths(paths) ==
    IF paths = {} THEN << >>
    ELSE LET lo == CHOOSE p \in paths : \A q \in paths \ {p} : PathLess(p, q)
         IN  << lo >> \o SortedPaths(paths \ {lo})

\* the body of the loop over the patterns (lines 193-195)
collect_pattern(paths, tree, pattern) == paths \o SortedPaths(rglob(tree, pattern))

\* collect_html_paths as a whole
RECURSIVE collect_from(_, _, _)
collect_from(paths, tree, pats) ==
    IF pats = << >> THEN paths
    ELSE collect_from(collect_pattern(paths, tree, pats[1]), tree, Tail(pats))

collect_html_paths(tree, pats) == collect_from(<< >>, tree, pats)
-----------------------------------------------------------------------------
(***************************************************************************)
(* State.                                                                  *)
(***************************************************************************)

VARIABLES
    fields,         \* extractor -> self.fields: field name -> FieldValue
    counter,        \* extractor -> self.counter
    calls,          \* number of add_field calls made so far
    last_call,      \* the arguments of the latest add_field call
    offered,        \* field -> the candidate values add_field has offered to it
    offered_since,  \* the same, for the reference string now in effect
    matrix,         \* _extract_table: the grid under construction
    row_idx,        \* _extract_table: index of the tr being read, -1 before the first
    col_idx,        \* _extract_table: the column cursor
    table_pc,       \* _extract_table: "rows", "done" or "raised"
    placed,         \* the cells placed so far: row, column, spans and text
    header_map,     \* _extract_table: column index -> field of the header row
    ranking_idx,    \* _extract_table: None or Some(column of the rank header)
    last_name_field,\* _extract_table: "None", "purchaser" or "agency"
    rows_done,      \* the number of matrix rows interpreted so far
    row_seen,       \* the row interpreted last
    forwarded,      \* the add_field calls the row interpreted last made
    soup,           \* extractor -> self.soup, None before construction
    pc,             \* extractor -> how far its extract() call has come
    full_text,      \* extractor -> self.full_text
    processed_tables, \* extractor -> self._processed_tables, as paths
    visited,        \* extractor -> the tables and blocks _walk_dom has handled
    result,         \* extractor -> None or the record extract() returned
    built,          \* the number of extractors constructed so far
    batch,          \* "directory": extract_directory, "pipeline": process_documents
    files,          \* the batch: the files in the order they are taken
    file_idx,       \* the number of files the batch loop has taken
    stats,          \* the batch's counts: total, success, failed
    records,        \* the batch's records, in order
    batch_pc,       \* "start", "loop" or "returned"
    merged,         \* _process_text_block: the segments of the block
    segment_idx,    \* _process_text_block: the number of segments handled
    in_agency_section, \* _process_text_block: the agency-section flag
    text_pc,        \* "start", "segments" or "returned"
    root,           \* collect_html_paths: the files under the root directory
    patterns,       \* collect_html_paths: the patterns, in order
    pattern_idx,    \* collect_html_paths: the number of patterns handled
    found,          \* collect_html_paths: its list files
    collect_pc,     \* "start", "loop" or "returned"
    label,          \* label_to_field: the label
    best_field,     \* label_to_field: None, or Some(what it returned)
    alias_scores    \* label_to_field: the score each alias gave the label

storeVars == << fields, counter >>

offerVars == << calls, last_call, offered, offered_since >>

matrixVars == << matrix, row_idx, col_idx, table_pc, placed >>

rowVars == << header_map, ranking_idx, last_name_field, rows_done, row_seen, forwarded >>

extractVars == << soup, pc, full_text, processed_tables, visited, result, built >>

batchVars == << batch, files, file_idx, stats, records, batch_pc >>

textVars == << merged, segment_idx, in_agency_section, text_pc >>

collectVars == << root, patterns, pattern_idx, found, collect_pc >>

labelVars == << label, best_field, alias_scores >>

vars == << storeVars, offerVars, matrixVars, rowVars, extractVars, batchVars,
           textVars, collectVars, labelVars >>

\* The variables the actions of one specification leave alone.
laterVars == << textVars, collectVars, labelVars >>

notStoreVars == << matrixVars, rowVars, extractVars, batchVars, laterVars >>

notMatrixVars == << storeVars, offerVars, rowVars, extractVars, batchVars, laterVars >>

notRowVars == << offerVars, matrixVars, extractVars, batchVars, laterVars >>

notExtractVars == << offerVars, matrixVars, rowVars, batchVars, laterVars >>

notBatchVars == << storeVars, offerVars, matrixVars, rowVars, extractVars, laterVars >>

notTextVars == << offerVars, matrixVars, rowVars, extractVars, batchVars, collectVars, labelVars >>

notCollectVars == << storeVars, offerVars, matrixVars, rowVars, extractVars, batchVars,
                     textVars, labelVars >>

notLabelVars == << storeVars, offerVars, matrixVars, rowVars, extractVars, batchVars,
                   textVars, collectVars >>

\* The extractor the operators work on.
Self(e) == [fields |-> fields[e], counter |-> counter[e]]

\* The state of the variables a specification does not use.
StoreIdle ==
    /\ fields = [e \in {1} |-> EmptyFields]
    /\ counter = [e \in {1} |-> 0]

OffersIdle ==
    /\ calls = 0
    /\ last_call = [extractor |-> 0, field |-> NoField, raw_value |-> << >>]
    /\ offered = [f \in FieldNames |-> {}]
    /\ offered_since = [f \in FieldNames |-> {}]

MatrixIdle ==
    /\ matrix = << >>
    /\ row_idx = -1
    /\ col_idx = 0
    /\ table_pc = "rows"
    /\ placed = << >>

RowsIdle ==
    /\ header_map = << >>
    /\ ranking_idx = None
    /\ last_name_field = "None"
    /\ rows_done = 0
    /\ row_seen = << >>
    /\ forwarded = << >>

ExtractIdle ==
    /\ soup = << >>
    /\ pc = << >>
    /\ full_text = << >>
    /\ processed_tables = << >>
    /\ visited = << >>
    /\ result = << >>
    /\ built = 0

BatchIdle ==
    /\ batch = "directory"
    /\ files = << >>
    /\ file_idx = 0
    /\ stats = [total |-> 0, success |-> 0, failed |-> 0]
    /\ records = << >>
    /\ batch_pc = "start"

TextIdle ==
    /\ merged = << >>
    /\ segment_idx = 0
    /\ in_agency_section = FALSE
    /\ text_pc = "start"

CollectIdle ==
    /\ root = {}
    /\ patterns = << >>
    /\ pattern_idx = 0
    /\ found = << >>
    /\ collect_pc = "start"

LabelIdle ==
    /\ label = << >>
    /\ best_field = None
    /\ alias_scores = << >>

LaterIdle == TextIdle /\ CollectIdle /\ LabelIdle

-----------------------------------------------------------------------------
(***************************************************************************)
(* The raw values offered to the stores.                                   *)
(***************************************************************************)

D_slash == <<"2", "0", "2", "1", "/", "5", "/", "4">>   \* 2021/5/4

D_cn == <<"2", "0", "2", "2", "nian", "1", "1", "yue", "3", "0", "ri">>   \* 2022年11月30日

D_bad == <<"dai2", "ding">>   \* 待定

P_title == <<"ce", "shi8", "cai2", "gou2", "xiang3", "mu">>   \* 测试采购项目

P_placeholder == <<"xiang2", "jian4", "fu3", "jian">>   \* 详见附件

N_east == <<"dong2", "cheng4", "qu", "cai3", "zheng", "ju2">>   \* 东城区财政局

N_city == <<"mou", "shi4", "cai3", "zheng", "ju2">>   \* 某市财政局

A_east == <<"dong2", "cheng4", "qu", "yi", "hao">>   \* 东城区一号

A_west == <<"xi3", "cheng4", "qu", "da", "dao", "yi", "hao">>   \* 西城区大道一号

A_agency == <<"dai", "li2", "ji2", "gou", "yi", "hao">>   \* 代理机构一号

S_long == <<"mou", "mou", "ke", "ji", "you", "xian2", "gong2", "si">>   \* 某某科技有限公司

S_short == <<"yi3", "gong2", "si">>   \* 乙公司

SA_road == <<"bei2", "jing", "shi4", "hai", "lu", "2", "hao">>   \* 北京市海路2号

M_wan == <<"5", "0", "wan", "yuan">>   \* 50万元

M_comma == <<"1", ",", "9", "8", "0", ",", "0", "0", "0", "yuan">>   \* 1,980,000元

C_goods == <<"huo", "wu4">>   \* 货物

C_mixed == <<"she2", "bei", "wei4", "hu">>   \* 设备维护

C_service == <<"fu2", "wu2", "lei">>   \* 服务类

T_item == <<"ce", "shi8", "she2", "bei">>   \* 测试设备

T_model == <<"xing", "hao", "V", "1", ".", "0">>   \* 型号V1.0

SampleValues(field) ==
    CASE field = F_date -> {D_slash, D_cn, D_bad}
      [] field = F_project -> {P_title, P_placeholder}
      [] field = F_buyer -> {N_east, N_city}
      [] field = F_buyer_addr -> {A_east, A_west, A_agency}
      [] field = F_supplier -> {S_long, S_short}
      [] field = F_supplier_addr -> {SA_road}
      [] field = F_amount -> {M_wan, M_comma}
      [] field = F_category -> {C_goods, C_mixed, C_service}
      [] field = F_subject -> {T_item, T_model}

\* The number of add_field calls one behaviour makes.
MaxOffers == 3

-----------------------------------------------------------------------------
(***************************************************************************)
(* The field stores under arbitrary add_field calls.                       *)
(***************************************************************************)

\* The name field whose value is the reference of an address field.
ReferenceField(field) ==
    IF field = F_buyer_addr THEN F_buyer
    ELSE IF field = F_supplier_addr THEN F_supplier
    ELSE NoField

StoredText(store, field) ==
    IF store[field].entries = << >> THEN << >> ELSE store[field].entries[1][2]

InitStore == StoreIdle /\ OffersIdle /\ MatrixIdle /\ RowsIdle /\ ExtractIdle /\ BatchIdle
             /\ LaterIdle

\* The candidates add_field(field, raw_value) offers.
Candidates(field, raw_value) == SeqRange(add_field_values(field, raw_value))

\* The stores change from fields[e] to after.fields under the call.
Record(e, field, raw_value, after, values) ==
    /\ fields' = [fields EXCEPT ![e] = after.fields]
    /\ counter' = [counter EXCEPT ![e] = after.counter]
    /\ last_call' = [extractor |-> e, field |-> field, raw_value |-> raw_value]
    /\ offered' = [offered EXCEPT ![field] = @ \cup values]
    /\ offered_since' =
           [f \in FieldNames |->
               IF f = field THEN offered_since[f] \cup values
               ELSE IF ReferenceField(f) = field
                       /\ StoredText(after.fields, field) /= StoredText(fields[e], field)
                    THEN {}
                    ELSE offered_since[f]]

\* extractor.add_field(field, raw_value)
AddField(e, field, raw_value) ==
    /\ calls < MaxOffers
    /\ DateParseModelled(raw_value) \/ field /= F_date
    /\ calls' = calls + 1
    /\ Record(e, field, raw_value, add_field(Self(e), field, raw_value),
              Candidates(field, raw_value))
    /\ UNCHANGED notStoreVars

NextStore ==
    \E e \in DOMAIN fields, field \in FieldNames :
        \E raw_value \in SampleValues(field) : AddField(e, field, raw_value)

SpecStore == InitStore /\ [][NextStore]_vars

-----------------------------------------------------------------------------
(***************************************************************************)
(* The stores under add_field calls with raw amounts, raw dates,           *)
(* placeholder texts, purchaser addresses, values with colons and raw      *)
(* categories.                                                             *)
(***************************************************************************)

\* The number of add_field calls one behaviour makes.
MaxValueOffers == 2

\* Raw amounts: a number, a thousands separator, both units, no unit.
AmountSamples ==
    { <<"zhong", "biao", "jin", "ee", "fcolon", "1", "9", "5", ".", "5", "wan", "yuan">>, <<"1", ",", "9", "8", "0", ",", "0", "0", "0", "yuan">>, <<"ren", "min", "bi", "5", "0", "wan", "yuan", "zheng2">>, <<"1", "2", ".", "3", "4", "5", "yuan">>, <<"0", ".", "1", "2", "5", "wan">>,
      <<"1", "0", "0", "yuan", " ", "2", "0", "0", "wan", "yuan">>, <<"1", ".", "2", ".", "3", "yuan">>, <<"dai2", "ding">>, <<"3", " ", "0", "0", "0">>, <<"5", "0", "wan", "yuan", ",", "5", "0", "wan", "yuan", "zheng2">>,
      <<"1", "2", ".", "5", "wan", "yuan">>, <<"1", "2", ".", "5", "yuan">>, <<"1", "2", ".", "5">> }

\* Raw dates: each separator, a label before the date, a time after it, and
\* dates no calendar has.
DateSamples ==
    { <<"fa", "bu", "shi7", "jian5", ":", "2", "0", "2", "1", "/", "5", "/", "4">>, <<"2", "0", "2", "1", "/", "5", "/", "4">>, <<"2", "0", "2", "2", "nian", "1", "1", "yue", "3", "0", "ri">>, <<"2", "0", "2", "1", ".", "5", ".", "4">>, <<"2", "0", "2", "1", "-", "1", "2", "-", "0", "3", " ", "1", "0", ":", "3", "0">>,
      <<"dai2", "ding">>, <<"2", "0", "2", "1", "/", "1", "3", "/", "4", "5">>, <<"2", "0", "2", "1", "nian", "2", "yue", "3", "0", "ri">> }

P_long_placeholder == <<"xiang2", "jian4", "cai2", "gou2", "wen", "jian", "fu3", "jian">>

\* Texts with and without a placeholder marker, of lengths less than the
\* placeholder penalty apart.
PlaceholderSamples(field) ==
    CASE field = F_project -> { P_title, P_placeholder, P_long_placeholder }
      [] field = F_buyer -> { <<"mou", "dan", "wei">>, <<"xiang2", "jian4", "gong2", "gao">> }
      [] field = F_supplier -> { <<"yi3", "fang">>, P_long_placeholder }
      [] field = F_subject -> { T_item, T_model, P_placeholder, P_long_placeholder }
      [] OTHER -> { }

\* Raw purchaser addresses: with each agency marker, with a marker behind a
\* semicolon, with a space inside a marker, and without one.
AgencyAddressSamples ==
    { A_east, A_agency, <<"zhao", "biao", "dai", "li2", "gong2", "si", "yi", "hao">>, <<"dong2", "cheng4", "qu", "cai2", "gou2", "dai", "li2", "yi", "hao">>, <<"zhong", "jie", "ji2", "gou", "yi", "hao">>,
      <<"dong2", "cheng4", "qu", "yi", "hao", "fsemi", "dai", "li2", "ji2", "gou">>, <<"dai", "li2", " ", "ji2", "gou", "yi", "hao">> }

\* Raw supplier addresses: with one colon of either form, with both forms in
\* either order, and without a colon.
ColonSamples ==
    { A_east, <<"dong2", "cheng4", "qu", "yi", "hao", "fcolon", "er", "hao">>, <<"dong2", "cheng4", "qu", "yi", "hao", ":", "er", "hao">>, <<"dong2", "cheng4", "qu", "yi", "hao", ":", "er", "hao", "fcolon", "san", "hao">>,
      <<"dong2", "cheng4", "qu", "yi", "hao", "fcolon", "er", "hao", ":", "san", "hao">> }

\* Raw categories: a category name, keywords of two categories in either
\* order, an explicit 服务类 next to a keyword of 货物, and no keyword.
CategorySamples ==
    { <<"huo", "wu4">>, <<"she2", "bei", "wei4", "hu">>, <<"wei4", "hu", "gai", "zao">>, <<"jian2", "she2", "gong3", "cheng3", "zi", "xun2">>, <<"she2", "bei", " ", "fu2", "wu2", "lei">>, <<"qi2", "ta">> }

ValueSamples(field) ==
    CASE field = F_amount -> AmountSamples
      [] field = F_category -> CategorySamples
      [] field = F_date -> DateSamples
      [] field = F_buyer_addr -> AgencyAddressSamples
      [] field = F_supplier_addr -> ColonSamples
      [] OTHER -> PlaceholderSamples(field)

InitValues ==
    /\ StoreIdle /\ OffersIdle /\ MatrixIdle /\ RowsIdle /\ ExtractIdle /\ BatchIdle
    /\ LaterIdle

\* extractor.add_field(field, raw_value)
OfferValue(e, field, raw_value) ==
    /\ calls < MaxValueOffers
    /\ DateParseModelled(raw_value) \/ field /= F_date
    /\ calls' = calls + 1
    /\ Record(e, field, raw_value, add_field(Self(e), field, raw_value),
              Candidates(field, raw_value))
    /\ UNCHANGED notStoreVars

NextValues ==
    \E e \in DOMAIN fields, field \in FieldNames :
        \E raw_value \in ValueSamples(field) : OfferValue(e, field, raw_value)

SpecValues == InitValues /\ [][NextValues]_vars

-----------------------------------------------------------------------------
(***************************************************************************)
(* Table reconstruction, one tr and one cell at a time, for every table    *)
(* of up to MaxTableRows rows and MaxTableCells cells.                     *)
(***************************************************************************)

MaxTableRows == 3

MaxTableCells == 3

\* The values of a rowspan / colspan attribute: absent, "1", "2", "abc", "".
SpanValues == {None, Some(<< "1" >>), Some(<< "2" >>), Some(<< "a", "b", "c" >>), Some(<< >>)}

\* The text of the n-th cell of the table.
CellLabel(n) == << "c", DigitChar(n) >>

SpanAttrs(rowspan, colspan) ==
    (IF rowspan = None THEN << >> ELSE << << "rowspan", rowspan[1] >> >>)
        \o (IF colspan = None THEN << >> ELSE << << "colspan", colspan[1] >> >>)

\* <td rowspan=... colspan=...>text</td>
Td(rowspan, colspan, text) == Tag("td", SpanAttrs(rowspan, colspan), << NavigableString(text) >>)

InitMatrix == StoreIdle /\ OffersIdle /\ MatrixIdle /\ RowsIdle /\ ExtractIdle /\ BatchIdle
              /\ LaterIdle

\* Lines 673-678: the loop over trs reaches the next tr.
BeginRow ==
    LET state == begin_row([matrix |-> matrix, col_idx |-> col_idx, raised |-> FALSE],
                           row_idx + 1)
    IN  /\ table_pc = "rows"
        /\ row_idx + 1 < MaxTableRows
        /\ row_idx' = row_idx + 1
        /\ matrix' = state.matrix
        /\ col_idx' = state.col_idx
        /\ UNCHANGED << table_pc, placed >>
        /\ UNCHANGED notMatrixVars

\* Lines 680-708: the loop over the cells of the tr reaches the next cell.
PlaceCell(cell) ==
    LET state == place_cell([matrix |-> matrix, col_idx |-> col_idx, raised |-> FALSE],
                            row_idx, cell)
    IN  /\ table_pc = "rows"
        /\ row_idx >= 0
        /\ Len(placed) < MaxTableCells
        /\ matrix' = state.matrix
        /\ col_idx' = state.col_idx
        /\ table_pc' = IF state.raised THEN "raised" ELSE "rows"
        /\ placed' = IF state.raised THEN placed
                     ELSE Append(placed,
                                 [row |-> row_idx,
                                  col |-> SkipOccupied(matrix[row_idx + 1], col_idx),
                                  rowspan |-> Span(cell, "rowspan"),
                                  colspan |-> Span(cell, "colspan"),
                                  text |-> normalize_whitespace(get_text(cell, << " " >>, TRUE))])
        /\ UNCHANGED row_idx
        /\ UNCHANGED notMatrixVars

\* Line 711: the loop over trs has ended.
FinishMatrix ==
    /\ table_pc = "rows"
    /\ table_pc' = "done"
    /\ UNCHANGED << matrix, row_idx, col_idx, placed >>
    /\ UNCHANGED notMatrixVars

NextMatrix ==
    \/ BeginRow
    \/ \E rowspan \in SpanValues, colspan \in SpanValues :
           PlaceCell(Td(rowspan, colspan, CellLabel(Len(placed) + 1)))
    \/ FinishMatrix

SpecMatrix == InitMatrix /\ [][NextMatrix]_vars

-----------------------------------------------------------------------------
(***************************************************************************)
(* Row interpretation, one matrix row at a time, for every table of up to  *)
(* MaxRows rows drawn from the sample rows.                                *)
(***************************************************************************)

MaxRows == 3

\* A matrix row holding these texts.
MatrixRow(texts) == [i \in 1..Len(texts) |-> Some(texts[i])]

R_header == MatrixRow(<< <<"pai", "ming">>, <<"gong", "ying", "shang", "ming", "cheng2">>, <<"gong", "ying", "shang", "di", "zhi">> >>)

R_first == MatrixRow(<< <<"1">>, S_long, SA_road >>)

R_second == MatrixRow(<< <<"2">>, S_short, A_east >>)

R_top == MatrixRow(<< <<"di2", "yi", "ming">>, S_short, SA_road >>)

R_pair == MatrixRow(<< <<"cai2", "gou2", "ren", "ming", "cheng2">>, N_city >>)

R_pairs == MatrixRow(<< <<"cai2", "gou2", "ren", "ming", "cheng2">>, N_east, <<"cai2", "gou2", "dan", "wei", "di", "zhi">>, A_west >>)

\* A row whose first position no cell covers.
R_gap == << None, Some(S_short) >>

\* A header row whose ranking column is the last one.
R_header_late == MatrixRow(<< <<"gong", "ying", "shang", "ming", "cheng2">>, <<"gong", "ying", "shang", "di", "zhi">>, <<"pai", "ming">> >>)

\* A row that ends before the ranking column of R_header_late.
R_short == MatrixRow(<< S_short, A_east >>)

\* The name of the agency and the address of the purchaser, as pair rows.
R_agency_name == MatrixRow(<< <<"dai", "li2", "ji2", "gou", "ming", "cheng2">>, S_short >>)

R_addr_pair == MatrixRow(<< <<"cai2", "gou2", "dan", "wei", "di", "zhi">>, A_west >>)

\* A label that holds 代理 and resolves to 采购单位名称.
R_agency_buyer == MatrixRow(<< <<"dai", "li2", "cai2", "gou2", "dan", "wei">>, S_short >>)

SampleRows == { R_header, R_first, R_second, R_top, R_pair, R_pairs, R_gap,
                R_header_late, R_short, R_agency_name, R_addr_pair, R_agency_buyer }

InitRows == StoreIdle /\ OffersIdle /\ MatrixIdle /\ RowsIdle /\ ExtractIdle /\ BatchIdle
            /\ LaterIdle

Ctx == [header_map |-> header_map, ranking_idx |-> ranking_idx,
        last_name_field |-> last_name_field, offers |-> << >>]

\* The variables after the row: ctx is the loop state the row leaves.
AfterRow(e, row, ctx, self) ==
    /\ header_map' = ctx.header_map
    /\ ranking_idx' = ctx.ranking_idx
    /\ last_name_field' = ctx.last_name_field
    /\ forwarded' = ctx.offers
    /\ row_seen' = row
    /\ fields' = [fields EXCEPT ![e] = self.fields]
    /\ counter' = [counter EXCEPT ![e] = self.counter]

\* Lines 718-812: the loop over the rows of the matrix reaches the next row.
InterpretRow(e, row) ==
    /\ rows_done < MaxRows
    /\ rows_done' = rows_done + 1
    /\ AfterRow(e, row_texts(row), interpret_row(Ctx, row_texts(row)),
                make_offers(Self(e), interpret_row(Ctx, row_texts(row)).offers, 1))
    /\ UNCHANGED notRowVars

NextRows == \E e \in DOMAIN fields : \E row \in SampleRows : InterpretRow(e, row)

SpecRows == InitRows /\ [][NextRows]_vars

-----------------------------------------------------------------------------
(***************************************************************************)
(* _process_text_block, one segment at a time, for every block of up to    *)
(* MaxBlockLines lines drawn from the sample lines.                        *)
(***************************************************************************)

MaxBlockLines == 3

TL_agency_addr == <<"dai", "li2", "ji2", "gou", "di", "zhi", "fcolon", "xi3", "cheng4", "qu", "da", "dao", "yi", "hao">>

TL_buyer_addr == <<"cai2", "gou2", "dan", "wei", "di", "zhi", "fcolon", "dong2", "cheng4", "qu", "yi", "hao">>

TL_purchaser == <<"cai2", "gou2", "ren", "xin", "xi">>

\* Ends with a semicolon: the next line is merged into its segment.
TL_agency_name == <<"cai2", "gou2", "dai", "li2", "ji2", "gou", "ming", "cheng2", "fcolon", "yi3", "gong2", "si", "fsemi">>

\* Names a purchaser-context marker together with 代理.
TL_attachment == <<"fu3", "jian", "jian4", "dai", "li2", "ji2", "gou">>

TL_buyer == <<"cai2", "gou2", "ren", "ming", "cheng2", "fcolon", "mou", "shi4", "cai3", "zheng", "ju2">>

TextLines == { TL_agency_addr, TL_buyer_addr, TL_purchaser, TL_agency_name, TL_attachment,
               TL_buyer }

\* element.get_text(separator="\n", strip=True) of the blocks.
TextBlocks ==
    { Join(lines, << "nl" >>) :
        lines \in UNION { [1..n -> TextLines] : n \in 1..MaxBlockLines } }

InitText ==
    /\ StoreIdle /\ OffersIdle /\ MatrixIdle /\ RowsIdle /\ ExtractIdle /\ BatchIdle
    /\ LaterIdle

\* The stores of extractor e become those of self.
SetStores(e, self) ==
    /\ fields' = [fields EXCEPT ![e] = self.fields]
    /\ counter' = [counter EXCEPT ![e] = self.counter]

\* Lines 605-621: the lines are merged and the flag is down.
BeginBlock(text) ==
    /\ text_pc = "start"
    /\ merged' = merge_lines(block_lines(text), 1)
    /\ segment_idx' = 0
    /\ in_agency_section' = FALSE
    /\ text_pc' = "segments"
    /\ UNCHANGED << storeVars, notTextVars >>

\* Lines 623-663 for the next segment.
Segment(e) ==
    /\ text_pc = "segments"
    /\ segment_idx < Len(merged)
    /\ segment_idx' = segment_idx + 1
    /\ in_agency_section' = agency_section(in_agency_section, merged[segment_idx + 1])
    /\ SetStores(e, make_offers(Self(e),
                                segment_offers(merged[segment_idx + 1],
                                               agency_section(in_agency_section,
                                                              merged[segment_idx + 1])),
                                1))
    /\ UNCHANGED << merged, text_pc, notTextVars >>

\* The loop of line 623 is through.
EndBlock ==
    /\ text_pc = "segments"
    /\ segment_idx = Len(merged)
    /\ text_pc' = "returned"
    /\ UNCHANGED << merged, segment_idx, in_agency_section, storeVars, notTextVars >>

NextText ==
    \/ \E text \in TextBlocks : BeginBlock(text)
    \/ \E e \in DOMAIN fields : Segment(e)
    \/ EndBlock

SpecText == InitText /\ [][NextText]_vars

-----------------------------------------------------------------------------
(***************************************************************************)
(* Extractors at work: each build_record call constructs an extractor for  *)
(* a parsed document and runs extract() on it, the steps of different      *)
(* extractors interleaved in any order.                                    *)
(***************************************************************************)

Extractors == {1, 2}

MaxBuilds == 3

Html(head, body) == Soup(<< Tag("html", << >>, << Tag("head", << >>, head),
                                                  Tag("body", << >>, body) >>) >>)

P(text) == Tag("p", << >>, << NavigableString(text) >>)

Tr(cells) == Tag("tr", << >>, cells)

TextCell(text) == Tag("td", << >>, << NavigableString(text) >>)

\* An empty file.
Doc_empty == Soup(<< >>)

\* A page without any of the labels.
Doc_blank == Html(<< >>, << P(<<"xiang2", "jian4", "fu3", "jian">>) >>)

\* Labelled lines of text.
Doc_text ==
    Html(<< >>,
         << Tag("div", << >>,
                << P(<<"cai2", "gou2", "ren", "ming", "cheng2", "fcolon", "mou", "shi4", "cai3", "zheng", "ju2">>), NavigableString(<<"nl">>),
                   P(<<"di", "zhi", "fcolon", "dong2", "cheng4", "qu", "yi", "hao">>) >>),
            P(<<"gong", "ying", "shang", "ming", "cheng2", "fcolon", "yi3", "gong2", "si", "fsemi", "zhong", "biao", "jin", "ee", "fcolon", "5", "0", "wan", "yuan">>) >>)

\* A ranked table under a heading.
Doc_table ==
    Html(<< >>,
         << Tag("h1", << >>, << NavigableString(<<"she2", "bei", "cai2", "gou2", "xiang3", "mu">>) >>),
            Tag("table", << >>,
                << Tr(<< TextCell(<<"pai", "ming">>), TextCell(<<"gong", "ying", "shang", "ming", "cheng2">>) >>),
                   Tr(<< TextCell(<<"2">>), TextCell(<<"yi3", "gong2", "si">>) >>),
                   Tr(<< TextCell(<<"1">>), TextCell(<<"mou", "mou", "ke", "ji", "you", "xian2", "gong2", "si">>) >>) >>) >>)

\* A table one of whose cells has a rowspan that is not a number.
Doc_span ==
    Html(<< >>,
         << P(<<"xiang3", "mu", "ming", "cheng2", "fcolon", "ce", "shi8", "xiang3", "mu">>),
            Tag("table", << >>,
                << Tr(<< Tag("td", << << "rowspan", <<"a", "b", "c">> >> >>,
                             << NavigableString(<<"gong", "ying", "shang", "ming", "cheng2">>) >>),
                         TextCell(<<"yi3", "gong2", "si">>) >>) >>) >>)

\* Meta tags, and text that stands in no block element.
Doc_meta ==
    Html(<< Tag("meta", << << "name", <<"A", "r", "t", "i", "c", "l", "e", "T", "i", "t", "l", "e">> >>, << "content", <<"ce", "shi8", "xiang3", "mu">> >> >>, << >>),
            Tag("meta", << << "name", <<"P", "u", "b", "D", "a", "t", "e">> >>, << "content", <<"2", "0", "2", "1", "-", "0", "5", "-", "0", "4">> >> >>, << >>) >>,
         << NavigableString(<<"cai2", "gou2", "dan", "wei", " ", "mou", "mou", "da", "xue", " ", "huo", "wu4", "lei">>) >>)

\* A labelled category, and the literal 货物类 in another paragraph.
Doc_labelled_service == Html(<< >>, << P(<<"cai2", "gou2", "lei", "bie", "fcolon", "fu2", "wu2">>), P(<<"huo", "wu4", "lei">>) >>)

\* A labelled category value with 货物类 next to keywords of other categories.
Doc_goods_keywords == Html(<< >>, << P(<<"cai2", "gou2", "lei", "bie", "fcolon", "she2", "bei", "wei4", "hu", "fu2", "wu2", " ", "huo", "wu4", "lei">>) >>)

\* Labelled paragraphs, then a table with a header row and a data row.
Doc_scenario ==
    Html(<< >>,
         << P(<<"xiang3", "mu", "ming", "cheng2", "fcolon", "ce", "shi8", "cai2", "gou2", "xiang3", "mu">>),
            P(<<"cai2", "gou2", "ren", "ming", "cheng2", "fcolon", "mou", "shi4", "cai3", "zheng", "ju2">>),
            Tag("table", << >>,
                << Tr(<< Tag("th", << >>, << NavigableString(<<"gong", "ying", "shang", "ming", "cheng2">>) >>),
                         Tag("th", << >>, << NavigableString(<<"zhong", "biao", "jin", "ee">>) >>) >>),
                   Tr(<< TextCell(<<"mou", "mou", "ke", "ji", "you", "xian2", "gong2", "si">>), TextCell(<<"5", "0", "wan", "yuan">>) >>) >>) >>)

Documents == { Doc_empty, Doc_blank, Doc_text, Doc_table, Doc_span, Doc_meta,
               Doc_labelled_service, Doc_goods_keywords, Doc_scenario }

InitExtract ==
    /\ fields = [e \in Extractors |-> EmptyFields]
    /\ counter = [e \in Extractors |-> 0]
    /\ soup = [e \in Extractors |-> None]
    /\ pc = [e \in Extractors |-> "absent"]
    /\ full_text = [e \in Extractors |-> << >>]
    /\ processed_tables = [e \in Extractors |-> {}]
    /\ visited = [e \in Extractors |-> << >>]
    /\ result = [e \in Extractors |-> None]
    /\ built = 0
    /\ OffersIdle /\ MatrixIdle /\ RowsIdle /\ BatchIdle /\ LaterIdle

\* The extractor e as the operators take it.
Extractor(e) ==
    [fields |-> fields[e], counter |-> counter[e], full_text |-> full_text[e],
     processed_tables |-> processed_tables[e], visited |-> visited[e], raised |-> FALSE]

\* The attributes of extractor e become those of self.
SetExtractor(e, self) ==
    /\ fields' = [fields EXCEPT ![e] = self.fields]
    /\ counter' = [counter EXCEPT ![e] = self.counter]
    /\ full_text' = [full_text EXCEPT ![e] = self.full_text]
    /\ processed_tables' = [processed_tables EXCEPT ![e] = self.processed_tables]
    /\ visited' = [visited EXCEPT ![e] = self.visited]

\* extract() of extractor e comes from one position to the next.
Goes(e, from, to) ==
    /\ pc[e] = from
    /\ pc' = [pc EXCEPT ![e] = to]

\* Construct with the stores, the counter and the set of processed tables
\* of the extractor that was in the place before.
Construct_keeping_stores(e, document) ==
    /\ pc[e] \in {"absent", "returned", "raised"}
    /\ built < MaxBuilds
    /\ built' = built + 1
    /\ soup' = [soup EXCEPT ![e] = Some(document)]
    /\ full_text' = [full_text EXCEPT ![e] = ProcurementExtractor(document).full_text]
    /\ pc' = [pc EXCEPT ![e] = "constructed"]
    /\ result' = [result EXCEPT ![e] = None]
    /\ UNCHANGED << fields, counter, processed_tables, visited >>
    /\ UNCHANGED notExtractVars

\* build_record, lines 829-830: extractor = ProcurementExtractor(soup), in
\* place of an extractor whose extract() call is over.
Construct(e, document) ==
    /\ pc[e] \in {"absent", "returned", "raised"}
    /\ built < MaxBuilds
    /\ built' = built + 1
    /\ soup' = [soup EXCEPT ![e] = Some(document)]
    /\ SetExtractor(e, ProcurementExtractor(document))
    /\ pc' = [pc EXCEPT ![e] = "constructed"]
    /\ result' = [result EXCEPT ![e] = None]
    /\ UNCHANGED notExtractVars

\* extract(), line 559.
ExtractMetaNodes(e) ==
    /\ Goes(e, "constructed", "meta_done")
    /\ SetExtractor(e, extract_meta_nodes(Extractor(e), soup[e][1]))
    /\ UNCHANGED << soup, result, built >>
    /\ UNCHANGED notExtractVars

\* The walk has left extractor e as after.
Walked(e, after) ==
    /\ SetExtractor(e, after)
    /\ pc' = [pc EXCEPT ![e] = IF after.raised THEN "raised" ELSE "walked"]

\* extract(), lines 560-562; the exception of _extract_table leaves
\* extract().
WalkDom(e) ==
    /\ pc[e] = "meta_done"
    /\ Walked(e, walk_dom(Extractor(e), soup[e][1], body_path(soup[e][1])))
    /\ UNCHANGED << soup, result, built >>
    /\ UNCHANGED notExtractVars

\* extract(), line 563.
ApplyFullTextPatterns(e) ==
    /\ Goes(e, "walked", "patterns_done")
    /\ SetExtractor(e, apply_full_text_patterns(Extractor(e), full_text[e]))
    /\ UNCHANGED << soup, result, built >>
    /\ UNCHANGED notExtractVars

\* extract(), lines 564-582.
ReturnRecord(e) ==
    /\ Goes(e, "patterns_done", "returned")
    /\ result' = [result EXCEPT ![e] = Some(extract_result(Extractor(e)))]
    /\ UNCHANGED << fields, counter, full_text, processed_tables, visited, soup, built >>
    /\ UNCHANGED notExtractVars

NextExtract ==
    \/ \E e \in Extractors, document \in Documents : Construct(e, document)
    \/ \E e \in Extractors : ExtractMetaNodes(e)
    \/ \E e \in Extractors : WalkDom(e)
    \/ \E e \in Extractors : ApplyFullTextPatterns(e)
    \/ \E e \in Extractors : ReturnRecord(e)

SpecExtract == InitExtract /\ [][NextExtract]_vars


-----------------------------------------------------------------------------
(***************************************************************************)
(* Specification SpecNested: the extractors at work on documents whose     *)
(* tables and blocks are nested in one another.                            *)
(***************************************************************************)

\* A table inside a block element; its only row has one cell.
Doc_div_table ==
    Html(<< >>,
         << Tag("div", << >>,
                << Tag("table", << >>,
                       << Tr(<< TextCell(<<"cai2", "gou2", "ren", "ming", "cheng2", "fcolon", "mou", "shi4", "cai3", "zheng", "ju2">>) >>) >>) >>) >>)

\* A table inside a cell of another table.
Doc_nested_table ==
    Html(<< >>,
         << Tag("table", << >>,
                << Tr(<< TextCell(<<"gong", "ying", "shang", "ming", "cheng2">>),
                         Tag("td", << >>,
                             << Tag("table", << >>,
                                    << Tr(<< TextCell(<<"gong", "ying", "shang", "di", "zhi">>),
                                             TextCell(<<"dong2", "cheng4", "qu", "yi", "hao">>) >>) >>) >>) >>) >>) >>)

\* A block that names the agency, and inside it a paragraph with the
\* purchaser address.
Doc_agency_nested ==
    Html(<< >>,
         << Tag("div", << >>, << P(<<"dai", "li2", "ji2", "gou", "xin", "xi">>), P(<<"cai2", "gou2", "dan", "wei", "di", "zhi", "fcolon", "dong2", "cheng4", "qu", "yi", "hao">>) >>) >>)

NestedDocuments == { Doc_div_table, Doc_nested_table, Doc_scenario, Doc_table, Doc_agency_nested }

NextNested ==
    \/ \E e \in Extractors, document \in NestedDocuments : Construct(e, document)
    \/ \E e \in Extractors : ExtractMetaNodes(e)
    \/ \E e \in Extractors : WalkDom(e)
    \/ \E e \in Extractors : ApplyFullTextPatterns(e)
    \/ \E e \in Extractors : ReturnRecord(e)

SpecNested == InitExtract /\ [][NextNested]_vars
-----------------------------------------------------------------------------
(***************************************************************************)
(* Extractors at work on documents with labelled lines that stand in no    *)
(* block element, so that only the fallback patterns reach them, and on    *)
(* documents with several dates.                                           *)
(***************************************************************************)

\* Three labelled dates outside any block element, the first with a month
\* that no calendar has.
Doc_loose_dates ==
    Html(<< >>,
         << NavigableString(<<"fa", "bu", "ri", "qi3", "fcolon", "2", "0", "2", "1", "/", "1", "3", "/", "5", " ", "fa", "bu", "shi7", "jian5", "fcolon", "2", "0", "2", "2", "nian", "1", "1", "yue", "3", "0", "ri", " ", "xin", "xi", "shi7", "jian5", "fcolon", "2", "0", "2", "1", "/", "5", "/", "4">>) >>)

\* Two labelled amounts outside any block element, more than the 80
\* characters of one match apart.
Doc_long_amounts ==
    Html(<< >>,
         << NavigableString(<<"cheng", "jiao", "jin", "ee", "fcolon", "5", "0", "wan", "yuan", "xiang2", "jian4", "fu3", "jian", "xiang2", "jian4", "fu3", "jian", "xiang2", "jian4", "fu3", "jian", "xiang2", "jian4", "fu3", "jian", "xiang2", "jian4", "fu3", "jian", "xiang2", "jian4", "fu3", "jian", "xiang2", "jian4", "fu3", "jian", "xiang2", "jian4", "fu3", "jian", "xiang2", "jian4", "fu3", "jian", "xiang2", "jian4", "fu3", "jian", "xiang2", "jian4", "fu3", "jian", "xiang2", "jian4", "fu3", "jian", "xiang2", "jian4", "fu3", "jian", "xiang2", "jian4", "fu3", "jian", "xiang2", "jian4", "fu3", "jian", "xiang2", "jian4", "fu3", "jian", "xiang2", "jian4", "fu3", "jian", "xiang2", "jian4", "fu3", "jian", "xiang2", "jian4", "fu3", "jian", "xiang2", "jian4", "fu3", "jian", "he", "tong", "jin", "ee", "fcolon", "1", ",", "9", "8", "0", ",", "0", "0", "0", "yuan">>) >>)

\* A labelled paragraph, then a labelled line for the same field outside any
\* block element.
Doc_walked_loose ==
    Html(<< >>,
         << P(<<"cai2", "gou2", "ren", "ming", "cheng2", "fcolon", "xiang2", "jian4", "fu3", "jian">>),
            NavigableString(<<"cai2", "gou2", "dan", "wei", "fcolon", "mou", "shi4", "cai3", "zheng", "ju2", "nl", "cai2", "gou2", "dan", "wei", "di", "zhi", "fcolon", "dong2", "cheng4", "qu", "yi", "hao">>) >>)

\* A PubDate meta tag, a labelled date in a paragraph and a labelled date
\* outside any block element.
Doc_meta_dates ==
    Html(<< Tag("meta", << << "name", <<"P", "u", "b", "D", "a", "t", "e">> >>, << "content", <<"2", "0", "2", "1", "-", "0", "5", "-", "0", "4">> >> >>, << >>) >>,
         << P(<<"fa", "bu", "shi7", "jian5", "fcolon", "2", "0", "2", "2", "nian", "1", "1", "yue", "3", "0", "ri">>), NavigableString(<<"xin", "xi", "shi7", "jian5", "fcolon", "2", "0", "2", "3", "/", "1", "/", "2">>) >>)

\* Two labelled dates in paragraphs and no meta tag.
Doc_body_dates ==
    Html(<< >>, << P(<<"gong2", "gao", "shi7", "jian5", "fcolon", "2", "0", "2", "2", "nian", "1", "1", "yue", "3", "0", "ri">>), P(<<"fa", "bu", "ri", "qi3", "fcolon", "2", "0", "2", "1", "/", "5", "/", "4">>) >>)

FallbackDocuments == { Doc_loose_dates, Doc_long_amounts, Doc_walked_loose, Doc_meta,
                       Doc_meta_dates, Doc_body_dates }

NextFallback ==
    \/ \E e \in Extractors, document \in FallbackDocuments : Construct(e, document)
    \/ \E e \in Extractors : ExtractMetaNodes(e)
    \/ \E e \in Extractors : WalkDom(e)
    \/ \E e \in Extractors : ApplyFullTextPatterns(e)
    \/ \E e \in Extractors : ReturnRecord(e)

SpecFallback == InitExtract /\ [][NextFallback]_vars
-----------------------------------------------------------------------------
(***************************************************************************)
(* A batch at work.  A file of extract_directory is a parsed document, or  *)
(* a file that cannot be read; a file of process_documents is its path     *)
(* with the outcomes of its conversion and of the extraction from its      *)
(* text, which lie outside the program.                                    *)
(***************************************************************************)

MaxFiles == 3

\* A file that read_html_text or the parser raises on.
Unreadable == [readable |-> FALSE, soup |-> Soup(<< >>)]

HtmlFile(document) == [readable |-> TRUE, soup |-> document]

DirectoryFiles ==
    { HtmlFile(document) : document \in {Doc_blank, Doc_text, Doc_span} } \cup {Unreadable}

\* A record as extract_record builds it from the extractions.
ExtractedRecords ==
    { [f \in FieldNames |-> << >>],
      [f \in FieldNames |-> IF f = F_supplier THEN <<"yi3", "gong2", "si">> ELSE << >>] }

Returns(record) == [raised |-> FALSE, record |-> record]

Raises == [raised |-> TRUE, record |-> << >>]

PipelineOutcomes ==
    { [convert |-> Raises, extracted |-> Raises] }
        \cup { [convert |-> Returns(<< >>), extracted |-> Raises] }
        \cup { [convert |-> Returns(<< >>), extracted |-> Returns(r)] : r \in ExtractedRecords }

\* The batches of up to MaxFiles files.
Batches(kinds) == UNION { [1..n -> kinds] : n \in 0..MaxFiles }

InitBatch ==
    /\ batch \in {"directory", "pipeline"}
    /\ files \in IF batch = "directory" THEN Batches(DirectoryFiles)
                                        ELSE Batches(PipelineOutcomes)
    /\ file_idx = 0
    /\ stats = NoStats
    /\ records = << >>
    /\ batch_pc = IF batch = "directory" THEN "loop" ELSE "start"
    /\ StoreIdle /\ OffersIdle /\ MatrixIdle /\ RowsIdle /\ ExtractIdle /\ LaterIdle

\* build_record(html_file): reading or parsing the file raises, or the
\* extractor's extract() gives the outcome.
file_outcome(file) == IF file.readable THEN build_record(file.soup) ELSE Raises

\* The loop body has left the batch as after.
FileDone(after) ==
    /\ stats' = after.stats
    /\ records' = after.records
    /\ file_idx' = file_idx + 1
    /\ UNCHANGED << batch, files, batch_pc >>

\* extract_directory: one round of the loop of line 837.
DirectoryFile ==
    /\ batch = "directory" /\ batch_pc = "loop"
    /\ file_idx < Len(files)
    /\ FileDone(directory_file([stats |-> stats, records |-> records],
                               file_outcome(files[file_idx + 1])))
    /\ UNCHANGED notBatchVars

\* process_documents, lines 251-256: the count of the files; the method
\* returns at once when there are none.
PipelineCollect ==
    /\ batch = "pipeline" /\ batch_pc = "start"
    /\ stats' = [stats EXCEPT !.total = Len(files)]
    /\ batch_pc' = IF Len(files) = 0 THEN "returned" ELSE "loop"
    /\ UNCHANGED << batch, files, file_idx, records >>
    /\ UNCHANGED notBatchVars

\* process_documents: one round of the loop of line 262.
PipelineFile ==
    /\ batch = "pipeline" /\ batch_pc = "loop"
    /\ file_idx < Len(files)
    /\ FileDone(pipeline_file([stats |-> stats, records |-> records], file_idx + 1,
                              files[file_idx + 1].convert, files[file_idx + 1].extracted))
    /\ UNCHANGED notBatchVars

\* extract_directory, line 847, and process_documents, line 291: the loop is
\* over and the method returns records and stats.
BatchReturn ==
    /\ batch_pc = "loop"
    /\ file_idx = Len(files)
    /\ batch_pc' = "returned"
    /\ UNCHANGED << batch, files, file_idx, stats, records >>
    /\ UNCHANGED notBatchVars

NextBatch ==
    \/ DirectoryFile
    \/ PipelineCollect
    \/ PipelineFile
    \/ BatchReturn

SpecBatch == InitBatch /\ [][NextBatch]_vars


-----------------------------------------------------------------------------
(***************************************************************************)
(* Specification SpecCollect: one call of collect_html_paths on a          *)
(* directory tree, one step per pattern.                                   *)
(***************************************************************************)

\* the largest number of files in the tree
MaxTreeFiles == 4

TreeSamples ==
    { << <<"a", ".", "h", "t", "m">> >>, << <<"b", ".", "h", "t", "m", "l">> >>, << <<"c", ".", "s", "h", "t", "m", "l">> >>, << <<"d", ".", "x", "h", "t", "m", "l">> >>,
      << <<"s", "u", "b">>, <<"a", ".", "h", "t", "m", "l">> >>, << <<"n", "o", "t", "e", "s", ".", "t", "x", "t">> >> }

\* The pattern lists: the default, the single pattern extract_directory uses,
\* and a list in which *.html files match both patterns.
PatternLists == { DEFAULT_PATTERNS, << <<"*", ".", "h", "t", "m", "*">> >>, << <<"*", ".", "h", "t", "m", "*">>, <<"*", ".", "h", "t", "m", "l">> >> }

InitCollect ==
    /\ root \in { t \in SUBSET TreeSamples : Cardinality(t) <= MaxTreeFiles }
    /\ patterns \in PatternLists
    /\ pattern_idx = 0
    /\ found = << >>
    /\ collect_pc = "start"
    /\ StoreIdle /\ OffersIdle /\ MatrixIdle /\ RowsIdle /\ ExtractIdle /\ BatchIdle
    /\ TextIdle /\ LabelIdle

\* files = [] (line 192)
CollectStart ==
    /\ collect_pc = "start"
    /\ found' = << >>
    /\ pattern_idx' = 0
    /\ collect_pc' = "loop"
    /\ UNCHANGED << root, patterns >>
    /\ UNCHANGED notCollectVars

\* one pattern of the loop (lines 193-195)
CollectPattern ==
    /\ collect_pc = "loop"
    /\ pattern_idx < Len(patterns)
    /\ found' = collect_pattern(found, root, patterns[pattern_idx + 1])
    /\ pattern_idx' = pattern_idx + 1
    /\ UNCHANGED << root, patterns, collect_pc >>
    /\ UNCHANGED notCollectVars

\* return files (line 196)
CollectReturn ==
    /\ collect_pc = "loop"
    /\ pattern_idx = Len(patterns)
    /\ collect_pc' = "returned"
    /\ UNCHANGED << root, patterns, pattern_idx, found >>
    /\ UNCHANGED notCollectVars

NextCollect == CollectStart \/ CollectPattern \/ CollectReturn

SpecCollect == InitCollect /\ [][NextCollect]_vars

-----------------------------------------------------------------------------
(***************************************************************************)
(* Specification SpecLabel: one call of label_to_field.                    *)
(***************************************************************************)

\* the longest fragment of an alias that is tried as a label
MaxLabelLen == 5

Fragments(s) ==
    { SubSeq(s, i, j) : i \in 1..Len(s), j \in 1..Len(s) } \ {<< >>}

\* The raw labels: the aliases, their fragments of up to MaxLabelLen
\* characters, and labels written with a colon, a space or brackets.
LabelSamples ==
    UNION { UNION { { l \in Fragments(FIELD_KEYWORDS(f)[k]) :
                        Len(l) <= MaxLabelLen \/ l = FIELD_KEYWORDS(f)[k] } :
                    k \in 1..Len(FIELD_KEYWORDS(f)) } :
            f \in FieldNames }
    \cup { <<"di", " ", "zhi">>, <<"di", "zhi", "fcolon">>, <<"ming", "cheng2", "fcolon">>, <<"cai2", "gou2", "ren", "di">>, <<"cai2", "gou2", "dan", "wei", "di">>, <<"gong", "ying", "shang", "di">>,
           <<"biao", "gong", "ying", "shang", "di", "zhi">>, <<"lian", "xi2", "di", "zhi">>, <<"dai", "li2", "ji2", "gou", "di", "zhi">>, <<"lpar", "ming", "cheng2", "rpar">> }

InitLabel ==
    /\ StoreIdle /\ OffersIdle /\ MatrixIdle /\ RowsIdle /\ ExtractIdle /\ BatchIdle
    /\ LaterIdle

\* label_to_field(l) (lines 462-496), with the score of every alias
LabelToField(l) ==
    /\ best_field = None
    /\ label' = l
    /\ best_field' = Some(label_to_field(l))
    /\ alias_scores' = [k \in 1..Len(AliasPairs) |->
                           AliasScore(AliasPairs[k][1], AliasPairs[k][2], l,
                                      normalize_label_text(l))]
    /\ UNCHANGED notLabelVars

NextLabel == \E l \in LabelSamples : LabelToField(l)

SpecLabel == InitLabel /\ [][NextLabel]_vars
-----------------------------------------------------------------------------
(***************************************************************************)
(* Properties of the field stores (SpecStore).                             *)
(***************************************************************************)

\* C2: a single-value field (multi = false) holds at most one entry after any
\* sequence of add_field calls; a candidate is never appended next to an
\* existing entry.
C2_SingleValueAtMostOneEntry ==
    \A e \in DOMAIN fields : \A f \in FieldNames :
        ~fields[e][f].multi => Len(fields[e][f].entries) <= 1

\* A field that was offered two different candidates and holds one entry.
C2_Witness ==
    \E e \in DOMAIN fields : \E f \in FieldNames :
        /\ Cardinality(offered[f]) >= 2
        /\ Len(fields[e][f].entries) = 1
        /\ fields[e][f].entries[1][1] >= 2

\* The step add_field(field, raw_value) took, for a store that held an entry.
C3_Step ==
    LET e == last_call'.extractor
        f == last_call'.field
        values == add_field_values(f, last_call'.raw_value)
        reference == add_field_reference(Self(e), f)
        old == fields[e][f].entries[1]
        new == fields'[e][f].entries[1]
        existing_score == score_field_value(f, old[2], reference)
    IN  (calls' = calls + 1 /\ fields[e][f].entries /= << >>) =>
            /\ Len(fields'[e][f].entries) = 1
            /\ Len(values) = 1 /\ score_field_value(f, values[1], reference) > existing_score
                   => /\ new = << counter[e] + 1, values[1] >>
                      /\ counter'[e] = counter[e] + 1
            /\ Len(values) = 1 /\ score_field_value(f, values[1], reference) <= existing_score
                   => /\ new = old
                      /\ counter'[e] = counter[e]
            /\ new /= old
                   => /\ new[2] \in SeqRange(values)
                      /\ score_field_value(f, new[2], reference) > existing_score
                      /\ new[1] > counter[e]
                      /\ new[1] > old[1]
                      /\ new[1] = counter'[e]
            /\ new = old => \A k \in 1..Len(values) :
                   score_field_value(f, values[k], reference) <= existing_score

\* C3: a candidate offered to a single-value field that holds an entry replaces
\* it only if its score is strictly greater than the stored value's, both taken
\* with the same reference string; otherwise the entry and the order counter are
\* unchanged; an accepted candidate gets a fresh, larger order index.
C3_ReplaceOnlyIfStrictlyBetter == [][C3_Step]_vars

\* The last call replaced the stored entry of its field by a better candidate.
C3_Witness ==
    \E f \in FieldNames :
        /\ last_call.field = f
        /\ Cardinality(offered[f]) >= 2
        /\ fields[1][f].entries /= << >>
        /\ fields[1][f].entries[1][1] = counter[1]
        /\ counter[1] >= 2
        /\ \E v \in offered[f] :
              score_field_value(f, v, add_field_reference(Self(1), f))
                  < score_field_value(f, fields[1][f].entries[1][2],
                                      add_field_reference(Self(1), f))

\* The stored value of f scores at least as high as every candidate of the
\* set, scores taken with the reference string now in effect.
StoredIsBest(e, f, candidates) ==
    LET reference == add_field_reference(Self(e), f)
    IN  candidates /= {} =>
            /\ fields[e][f].entries /= << >>
            /\ \A v \in candidates :
                  score_field_value(f, fields[e][f].entries[1][2], reference)
                      >= score_field_value(f, v, reference)

\* C4 as claimed: for every single-value field, the address fields included,
\* the stored value scores at least as high as every candidate offered so far,
\* scores taken with the reference string in effect at the end.
C4_BestOfAllOffered ==
    \A e \in DOMAIN fields : \A f \in FieldNames : StoredIsBest(e, f, offered[f])

\* C4 as amended: the stored value scores at least as high as every candidate
\* offered while the reference string now in effect was in effect: every
\* candidate for a field scored without reference, and for an address field
\* the candidates offered since the related name field's value last changed.
C4_BestOfOfferedUnderReference ==
    \A e \in DOMAIN fields : \A f \in FieldNames :
        /\ StoredIsBest(e, f, offered_since[f])
        /\ f \notin AddressFields => offered_since[f] = offered[f]

\* An address field with a reference in effect that was offered two candidates
\* under it, the better one second.
C4_Witness ==
    \E f \in AddressFields :
        /\ add_field_reference(Self(1), f) /= << >>
        /\ Cardinality(offered_since[f]) >= 2
        /\ fields[1][f].entries[1][1] >= 3

-----------------------------------------------------------------------------
(***************************************************************************)
(* Properties of the value normalisers and of the scores (SpecValues).     *)
(***************************************************************************)

\* digits, a point, two digits
HasTwoPlaces(v) ==
    /\ Len(v) >= 4
    /\ v[Len(v) - 2] = "."
    /\ \A i \in 1..Len(v) : i /= Len(v) - 2 => IsDigit(v[i])

\* The amount of a two-place decimal string, in hundredths.
Hundredths(v) == DigitsToInt(RemoveChars(v, {"."}))

\* What the raw amounts are to give, in the order of their numbers.
ExpectedAmounts(raw) ==
    CASE raw = <<"zhong", "biao", "jin", "ee", "fcolon", "1", "9", "5", ".", "5", "wan", "yuan">> -> << <<"1", "9", "5", "5", "0", "0", "0", ".", "0", "0">> >>
      [] raw = <<"1", ",", "9", "8", "0", ",", "0", "0", "0", "yuan">> -> << <<"1", "9", "8", "0", "0", "0", "0", ".", "0", "0">> >>
      [] raw = <<"ren", "min", "bi", "5", "0", "wan", "yuan", "zheng2">> -> << <<"5", "0", "0", "0", "0", "0", ".", "0", "0">> >>
      [] raw = <<"1", "2", ".", "3", "4", "5", "yuan">> -> << <<"1", "2", ".", "3", "4">> >>
      [] raw = <<"0", ".", "1", "2", "5", "wan">> -> << <<"0", ".", "1", "2">> >>
      [] raw = <<"1", "0", "0", "yuan", " ", "2", "0", "0", "wan", "yuan">> -> << <<"1", "0", "0", ".", "0", "0">>, <<"2", "0", "0", "0", "0", "0", "0", ".", "0", "0">> >>
      [] raw = <<"1", ".", "2", ".", "3", "yuan">> -> << >>
      [] raw = <<"dai2", "ding">> -> << >>
      [] raw = <<"3", " ", "0", "0", "0">> -> << <<"3", "0", "0", "0", ".", "0", "0">> >>
      [] raw = <<"5", "0", "wan", "yuan", ",", "5", "0", "wan", "yuan", "zheng2">> -> << <<"5", "0", "0", "0", "0", "0", ".", "0", "0">> >>
      [] raw = <<"1", "2", ".", "5", "wan", "yuan">> -> << <<"1", "2", "5", "0", "0", "0", ".", "0", "0">> >>
      [] raw = <<"1", "2", ".", "5", "yuan">> -> << <<"1", "2", ".", "5", "0">> >>
      [] raw = <<"1", "2", ".", "5">> -> << <<"1", "2", ".", "5", "0">> >>

\* The step offered a raw amount.
C13_Step ==
    (calls' = calls + 1 /\ last_call'.field = F_amount) =>
        LET raw == last_call'.raw_value
            e == last_call'.extractor
        IN  /\ raw \in AmountSamples
            /\ add_field_values(F_amount, raw) = ExpectedAmounts(raw)
            /\ (fields[e][F_amount].entries = << >> /\ Len(ExpectedAmounts(raw)) = 1)
                   => StoredText(fields'[e], F_amount) = ExpectedAmounts(raw)[1]
            /\ ExpectedAmounts(raw) = << >> => fields'[e] = fields[e]

\* C13: every number of a raw amount becomes a decimal string with exactly
\* two fractional digits, thousands separators ignored, multiplied by 10000
\* exactly when its unit is 万元 and unscaled for 元 or no unit:
\* "中标金额：195.5万元" is stored as "1955000.00", "1,980,000元" as
\* "1980000.00".
C13_AmountNormalization ==
    /\ [][C13_Step]_vars
    /\ [](/\ \A v \in offered[F_amount] : HasTwoPlaces(v)
          /\ StoredText(fields[1], F_amount) /= << >>
                 => HasTwoPlaces(StoredText(fields[1], F_amount))
          /\ \A number \in { <<"1", "2", ".", "5">>, <<"5", "0">>, <<"1", ",", "9", "8", "0">> } :
                /\ Hundredths(normalize_amounts(number \o <<"wan", "yuan">>)[1])
                       = 10000 * Hundredths(normalize_amounts(number \o <<"yuan">>)[1])
                /\ normalize_amounts(number) = normalize_amounts(number \o <<"yuan">>)
                /\ normalize_amounts(number \o <<"wan">>) = normalize_amounts(number))

\* "中标金额：195.5万元" was offered to the empty amount store, then
\* "1,980,000元": both were normalised, and the store keeps the first, whose
\* score the second does not exceed.
C13_Witness ==
    /\ calls = 2
    /\ last_call.raw_value = <<"1", ",", "9", "8", "0", ",", "0", "0", "0", "yuan">>
    /\ offered[F_amount] = { <<"1", "9", "5", "5", "0", "0", "0", ".", "0", "0">>, <<"1", "9", "8", "0", "0", "0", "0", ".", "0", "0">> }
    /\ fields[1][F_amount].entries = << << 1, <<"1", "9", "5", "5", "0", "0", "0", ".", "0", "0">> >> >>

\* YYYY年MM月DD日
HasDateShape(v) ==
    /\ Len(v) = 11
    /\ v[5] = <<"nian">>[1] /\ v[8] = <<"yue">>[1] /\ v[11] = <<"ri">>[1]
    /\ \A i \in {1, 2, 3, 4, 6, 7, 9, 10} : IsDigit(v[i])

\* The raw dates that cannot be parsed: no date at all, a month and a day
\* out of range, a day the month does not have.
UnparseableDates == { <<"dai2", "ding">>, <<"2", "0", "2", "1", "/", "1", "3", "/", "4", "5">>, <<"2", "0", "2", "1", "nian", "2", "yue", "3", "0", "ri">> }

\* What the other raw dates are to give.
ExpectedDate(raw) ==
    CASE raw = <<"fa", "bu", "shi7", "jian5", ":", "2", "0", "2", "1", "/", "5", "/", "4">> -> <<"2", "0", "2", "1", "nian", "0", "5", "yue", "0", "4", "ri">>
      [] raw = <<"2", "0", "2", "1", "/", "5", "/", "4">> -> <<"2", "0", "2", "1", "nian", "0", "5", "yue", "0", "4", "ri">>
      [] raw = <<"2", "0", "2", "2", "nian", "1", "1", "yue", "3", "0", "ri">> -> <<"2", "0", "2", "2", "nian", "1", "1", "yue", "3", "0", "ri">>
      [] raw = <<"2", "0", "2", "1", ".", "5", ".", "4">> -> <<"2", "0", "2", "1", "nian", "0", "5", "yue", "0", "4", "ri">>
      [] raw = <<"2", "0", "2", "1", "-", "1", "2", "-", "0", "3", " ", "1", "0", ":", "3", "0">> -> <<"2", "0", "2", "1", "nian", "1", "2", "yue", "0", "3", "ri">>

\* The step offered a raw date.
C14_Step ==
    (calls' = calls + 1 /\ last_call'.field = F_date) =>
        LET raw == last_call'.raw_value
            e == last_call'.extractor
        IN  IF raw \in UnparseableDates
            THEN /\ add_field_values(F_date, raw) = << >>
                 /\ fields'[e] = fields[e]
                 /\ counter'[e] = counter[e]
            ELSE /\ raw \in DateSamples
                 /\ add_field_values(F_date, raw) = << ExpectedDate(raw) >>
                 /\ fields[e][F_date].entries = << >>
                        => StoredText(fields'[e], F_date) = ExpectedDate(raw)

HasPlaceholder(v) ==
    \E marker \in { <<"xiang2", "jian4">>, <<"ling", "xing2">>, <<"zan", "wei3">>, <<"dai2", "ding">>, <<"-", "-">>, <<"jian4", "gong2", "gao">>, <<"jian4", "fu3", "jian">>, <<"wu3">> } :
        Contains(v, marker)

\* The value has none of the tokens that raise the score of the field.
NoBonusTokens(field, v, reference) ==
    /\ field = F_project =>
           ~Contains(v, <<"bian", "hao">>) /\ ~ContainsAnyOf(v, { <<"zhong", "biao", "gong2", "gao">>, <<"cheng", "jiao", "gong2", "gao">>, <<"jie2", "guo", "gong2", "gao">> })
    /\ field \in {F_buyer_addr, F_supplier_addr} =>
           /\ CountTokens(v, ADDRESS_SCORE_TOKENS) = 0
           /\ \A i \in 1..Len(v) : ~IsDigit(v[i])
           /\ extract_location_tokens(v) \cap extract_location_tokens(reference) = {}
    /\ field = F_supplier => CountTokens(v, SUPPLIER_SCORE_TOKENS) = 0
    /\ field = F_buyer => CountTokens(v, BuyerScoreTokens) = 0

\* The value has none of the marks of a specification, which lower the score
\* of 采购标的: a version number, 版本, 型号, 简称:, 规格:, a square bracket or a
\* bracketed edition.
NoSpecificationMarks(field, v) == field = F_subject => ~LooksLikeSpecification(v)

\* Field f was offered exactly the candidates a and b, under the reference
\* now in effect; a has no placeholder marker and b has one, neither has a
\* bonus token, and their lengths are less than the placeholder penalty
\* apart.
PlaceholderPair(f, a, b) ==
    /\ offered[f] = {a, b}
    /\ offered_since[f] = {a, b}
    /\ ~HasPlaceholder(a) /\ HasPlaceholder(b)
    /\ NoBonusTokens(f, a, add_field_reference(Self(1), f))
    /\ NoBonusTokens(f, b, add_field_reference(Self(1), f))
    /\ Len(a) - Len(b) < 20 /\ Len(b) - Len(a) < 20

\* C15 as stated: of two candidates of a single-value field without bonus
\* tokens, their lengths less than 20 apart, exactly one holding a
\* placeholder marker, the other one is stored in the end, whichever was
\* offered first.
C15_NonPlaceholderWins ==
    \A f \in FieldNames : \A a, b \in offered[f] :
        PlaceholderPair(f, a, b) => StoredText(fields[1], f) = a

\* C15, amended: the same, for candidates that have no mark that lowers the
\* score of the field either: for 采购标的, a value without a placeholder
\* that looks like a specification loses 100 and does not win.
C15_NonPlaceholderWinsIfUnmarked ==
    \A f \in FieldNames : \A a, b \in offered[f] :
        (/\ PlaceholderPair(f, a, b)
         /\ NoSpecificationMarks(f, a)
         /\ NoSpecificationMarks(f, b))
            => StoredText(fields[1], f) = a

\* The longer placeholder text was stored first and the shorter text
\* without a marker, offered after it, has taken its place.
C15_Witness ==
    /\ calls = 2
    /\ PlaceholderPair(F_subject, T_item, P_long_placeholder)
    /\ last_call.raw_value = T_item
    /\ fields[1][F_subject].entries = << << 2, T_item >> >>


\* The text holds one of the agency markers.
HasAgencyMarker(text) ==
    \E marker \in { <<"dai", "li2", "ji2", "gou">>, <<"zhao", "biao", "dai", "li2">>, <<"cai2", "gou2", "dai", "li2">>, <<"zhong", "jie", "ji2", "gou">> } : Contains(text, marker)

\* The step offered the purchaser address a raw value with an agency marker.
C20_Step ==
    (/\ calls' = calls + 1
     /\ last_call'.field = F_buyer_addr
     /\ HasAgencyMarker(last_call'.raw_value)) =>
        /\ add_field_values(F_buyer_addr, last_call'.raw_value) = << >>
        /\ fields' = fields
        /\ counter' = counter

\* C20: in every state of the stores, and in the value the record takes from
\* the store, 采购单位地址 holds none of 代理机构, 招标代理, 采购代理, 中介机构;
\* a raw value with such a marker yields no candidate and leaves the store as
\* it was.  Every path offers its candidates through add_field.
C20_NoAgencyAddress ==
    /\ [][C20_Step]_vars
    /\ [](\A e \in DOMAIN fields :
             /\ ~HasAgencyMarker(StoredText(fields[e], F_buyer_addr))
             /\ ~HasAgencyMarker(FieldValue_get(fields[e][F_buyer_addr]))
             /\ \A k \in 1..Len(fields[e][F_buyer_addr].entries) :
                    ~HasAgencyMarker(fields[e][F_buyer_addr].entries[k][2]))

\* 东城区一号 is stored; the longer 东城区采购代理一号, offered after it, was
\* blanked and the store still holds the first value.
C20_Witness ==
    /\ calls = 2
    /\ last_call.field = F_buyer_addr
    /\ last_call.raw_value = <<"dong2", "cheng4", "qu", "cai2", "gou2", "dai", "li2", "yi", "hao">>
    /\ fields[1][F_buyer_addr].entries = << << 1, A_east >> >>
    /\ counter[1] = 1
-----------------------------------------------------------------------------
(***************************************************************************)
(* The colon split of cleanup_field_value (SpecValues).                    *)
(***************************************************************************)

\* The positions of the colon-like separators of a value.
ColonPositions(value) == { i \in 1..Len(value) : value[i] \in {":", <<"fcolon">>[1]} }

\* The text on both sides of the first colon-like separator is not blank.
SplitsAtFirstColon(value) ==
    /\ ColonPositions(value) /= {}
    /\ Strip(Take(value, SetMin(ColonPositions(value)) - 1)) /= << >>
    /\ Strip(Drop(value, SetMin(ColonPositions(value)))) /= << >>

\* The text to the left of the first colon-like separator.
LeftOfFirstColon(value) == Take(value, SetMin(ColonPositions(value)) - 1)

\* The step offered a supplier address.
OffersSupplierAddress == calls' = calls + 1 /\ last_call'.field = F_supplier_addr

\* C26: the cleaned form of a value of a field outside the exemption list
\* that has non-blank text on both sides of its first colon-like separator is
\* the text to the left of that separator, whichever of "：" and ":" it is.
C26_LeftOfFirstColon ==
    [][(OffersSupplierAddress /\ SplitsAtFirstColon(last_call'.raw_value)) =>
          /\ add_field_values(F_supplier_addr, last_call'.raw_value)
                 = << LeftOfFirstColon(last_call'.raw_value) >>
          /\ fields[last_call'.extractor][F_supplier_addr].entries = << >>
                 => StoredText(fields'[last_call'.extractor], F_supplier_addr)
                        = LeftOfFirstColon(last_call'.raw_value)]_vars

\* A value with ":" before "：" was offered to the empty store: the store
\* holds the text to the left of the "：".
C26_FullWidthColonFirst ==
    /\ calls = 1
    /\ last_call.raw_value = <<"dong2", "cheng4", "qu", "yi", "hao", ":", "er", "hao", "fcolon", "san", "hao">>
    /\ fields[last_call.extractor][F_supplier_addr].entries = << << 1, <<"dong2", "cheng4", "qu", "yi", "hao", ":", "er", "hao">> >> >>

\* The colon split of the other values: a value with one colon, or with "："
\* before ":", is cut at its first colon.
C26_OtherValuesCutAtFirstColon ==
    [][(/\ OffersSupplierAddress
        /\ SplitsAtFirstColon(last_call'.raw_value)
        /\ last_call'.raw_value /= <<"dong2", "cheng4", "qu", "yi", "hao", ":", "er", "hao", "fcolon", "san", "hao">>) =>
          add_field_values(F_supplier_addr, last_call'.raw_value)
              = << LeftOfFirstColon(last_call'.raw_value) >>]_vars
-----------------------------------------------------------------------------
(***************************************************************************)
(* The category store (SpecValues).                                        *)
(***************************************************************************)

\* The category that a raw category is to leave in an empty store: the first
\* in the order 货物, 服务, 工程 of those whose keywords the text holds, or
\* the one named with 类; the empty string when the text holds no keyword.
ExpectedCategory(raw) ==
    CASE raw = <<"huo", "wu4">> -> <<"huo", "wu4">>
      [] raw = <<"she2", "bei", "wei4", "hu">> -> <<"huo", "wu4">>
      [] raw = <<"wei4", "hu", "gai", "zao">> -> <<"fu2", "wu2">>
      [] raw = <<"jian2", "she2", "gong3", "cheng3", "zi", "xun2">> -> <<"fu2", "wu2">>
      [] raw = <<"she2", "bei", " ", "fu2", "wu2", "lei">> -> <<"fu2", "wu2">>
      [] raw = <<"qi2", "ta">> -> << >>

\* The step offered a raw category to extractor e.
OffersCategory(e) ==
    calls' = calls + 1 /\ last_call'.field = F_category /\ last_call'.extractor = e

\* C30: the category store holds one of 货物, 服务, 工程 or nothing; a raw
\* category offered to the empty store leaves the first category, in the
\* order 货物, 服务, 工程, whose keywords it holds, and a category in the
\* store is not replaced by any later candidate.
C30_CategoryKeptOnceStored ==
    /\ [](\A e \in DOMAIN fields :
            /\ Len(fields[e][F_category].entries) <= 1
            /\ StoredText(fields[e], F_category) \in { << >>, <<"huo", "wu4">>, <<"fu2", "wu2">>, <<"gong3", "cheng3">> })
    /\ [][\A e \in DOMAIN fields :
            /\ OffersCategory(e) =>
                  /\ last_call'.raw_value \in CategorySamples
                  /\ StoredText(fields'[e], F_category) =
                         IF fields[e][F_category].entries = << >>
                         THEN ExpectedCategory(last_call'.raw_value)
                         ELSE StoredText(fields[e], F_category)
            /\ fields[e][F_category].entries /= << >>
                  => fields'[e][F_category] = fields[e][F_category]]_vars

\* 维护改造, with keywords of 服务 and 工程, was offered to the empty store
\* and then 设备维护, with keywords of 货物 and 服务: the store holds 服务
\* from the first call.
C30_Witness ==
    /\ calls = 2
    /\ last_call.field = F_category
    /\ last_call.raw_value = <<"she2", "bei", "wei4", "hu">>
    /\ offered[F_category] = { <<"huo", "wu4">>, <<"fu2", "wu2">>, <<"gong3", "cheng3">> }
    /\ fields[last_call.extractor][F_category].entries = << << 1, <<"fu2", "wu2">> >> >>
-----------------------------------------------------------------------------
(***************************************************************************)
(* Properties of table reconstruction (SpecMatrix).                        *)
(***************************************************************************)

\* The cell placed by the step, when the step placed one.
C8_Step ==
    Len(placed') = Len(placed) + 1 =>
        LET p == placed'[Len(placed')]
        IN  /\ p.row = row_idx
            /\ p.col = SkipOccupied(matrix[row_idx + 1], col_idx)
            /\ \A i \in 0..(p.rowspan - 1), j \in 0..(p.colspan - 1) :
                  /\ InGrid(matrix', p.row + i, p.col + j)
                  /\ Cell(matrix', p.row + i, p.col + j) = Some(p.text)
            /\ col_idx' = p.col + p.colspan

\* The example: the first cell of row 0 has rowspan=2 and colspan=2; the
\* cells of row 1 sit at column 2 or later, the first of them at column 2
\* when no other cell of row 0 reaches row 1.
C8_Example ==
    (/\ placed /= << >>
     /\ placed[1].row = 0 /\ placed[1].rowspan = 2 /\ placed[1].colspan = 2) =>
        /\ placed[1].col = 0
        /\ \A r \in 0..1, c \in 0..1 : Cell(matrix, r, c) = Some(placed[1].text)
        /\ \A k \in 2..Len(placed) :
              placed[k].row = 1 =>
                  /\ placed[k].col >= 2
                  /\ (\A j \in 2..(k - 1) : placed[j].row = 0 /\ placed[j].rowspan <= 1)
                         => placed[k].col = 2

\* C8: a cell of row r placed at column c with rowspan R and colspan C has its
\* text written to every (r+i, c+j), 0 <= i < R, 0 <= j < C, the grid growing
\* as needed, and the column cursor advances by C; a cell of row 0 with
\* rowspan=2, colspan=2 fills (0,0), (0,1), (1,0), (1,1) and the cells of the
\* following row start at column 2.
C8_CellFillsItsBlock == [][C8_Step /\ C8_Example']_vars

\* A 2x2 cell opens row 0 and the first cell of row 1 sits at column 2.
C8_Witness ==
    /\ Len(placed) >= 2
    /\ placed[1].row = 0 /\ placed[1].rowspan = 2 /\ placed[1].colspan = 2
    /\ placed[2].row = 1 /\ placed[2].col = 2
    /\ Cell(matrix, 1, 1) = Some(placed[1].text)
    /\ Cell(matrix, 1, 2) = Some(placed[2].text)

\* The cells whose block covers grid position (r, c), in placement order.
Coverers(r, c) ==
    { k \in 1..Len(placed) :
        /\ placed[k].row <= r /\ r < placed[k].row + placed[k].rowspan
        /\ placed[k].col <= c /\ c < placed[k].col + placed[k].colspan }

\* The right edges of the blocks that reach grid row r.
RightEdges(r) ==
    { placed[k].col + placed[k].colspan :
        k \in { j \in 1..Len(placed) :
                  placed[j].row <= r /\ r < placed[j].row + placed[j].rowspan } }

-----------------------------------------------------------------------------
(***************************************************************************)
(* Cells that write the same grid position (SpecMatrix).                   *)
(***************************************************************************)

\* Grid position (r, c) holds no text: it lies outside the grid or holds None.
IsFree(grid, r, c) == ~InGrid(grid, r, c) \/ Cell(grid, r, c) = None

\* C27 as claimed: no grid position is written by two different cells; once a
\* position is filled no later cell overwrites it, whatever its colspan.
C27_NoPositionWrittenTwice ==
    \A r \in 0..(Len(matrix) - 1) : \A c \in 0..(Len(matrix[r + 1]) - 1) :
        Cardinality(Coverers(r, c)) <= 1

\* C27 as amended: a cell starts on a free position, and every position of the
\* first column of its block is free when it is placed; the positions of the
\* other columns of its block are written whether free or not, so that a cell
\* with colspan > 1 overwrites what the rowspan of a cell of an earlier row
\* put there, and a position is written twice only in this way.
C27_FirstColumnFree ==
    [][Len(placed') = Len(placed) + 1 =>
          /\ \A i \in 0..(placed'[Len(placed')].rowspan - 1) :
                IsFree(matrix, placed'[Len(placed')].row + i, placed'[Len(placed')].col)
          /\ \A r \in 0..(Len(matrix) - 1) : \A c \in 0..(Len(matrix[r + 1]) - 1) :
                (~IsFree(matrix, r, c) /\ Cell(matrix', r, c) /= Cell(matrix, r, c)) =>
                    /\ placed'[Len(placed')].colspan > 1
                    /\ c > placed'[Len(placed')].col
                    /\ Cell(matrix', r, c) = Some(placed'[Len(placed')].text)]_vars

\* The second cell of row 0 reaches row 1, and the first cell of row 1, two
\* columns wide, starts on the free column 0 and overwrites it at column 1.
C27_Witness ==
    /\ Len(placed) = 3
    /\ placed[2].row = 0 /\ placed[2].col = 1 /\ placed[2].rowspan = 2
    /\ placed[3].row = 1 /\ placed[3].col = 0 /\ placed[3].colspan = 2
    /\ Coverers(1, 1) = {2, 3}
    /\ Cell(matrix, 1, 1) = Some(placed[3].text)
-----------------------------------------------------------------------------
(***************************************************************************)
(* Properties of row interpretation (SpecRows).                            *)
(***************************************************************************)

SupplierFields == {F_supplier, F_supplier_addr}

\* The step interpreted a data row of a table whose adopted header row has a
\* ranking column, and the row has a cell in that column.
C10_Step ==
    (/\ rows_done' = rows_done + 1
     /\ DOMAIN header_map /= {}
     /\ ranking_idx /= None
     /\ ranking_idx[1] < Len(row_seen')) =>
        LET row == row_seen'
            rank == row_seen'[ranking_idx[1] + 1]
        IN  /\ ~IsRankAccepted(rank) =>
                  /\ \A k \in 1..Len(forwarded') : forwarded'[k].field \notin SupplierFields
                  /\ \A f \in SupplierFields : \A e \in DOMAIN fields :
                        fields'[e][f] = fields[e][f]
            /\ IsRankAccepted(rank) =>
                  \A idx \in DOMAIN header_map :
                      (idx < Len(row) /\ label_to_field(row[idx + 1]) = NoField) =>
                          \E k \in 1..Len(forwarded') :
                              /\ forwarded'[k].via = "header"
                              /\ forwarded'[k].field = header_map[idx]
                              /\ header_map[idx] /= F_subject
                                     => forwarded'[k].value = row[idx + 1]

\* C10: under an adopted header row with a ranking column, a data row whose
\* rank cell is not an accepted winner marker (e.g. "2") forwards no candidate
\* to the supplier name or address, by the header mapping or by the pairwise
\* scan; a row whose rank cell is 1, 第一名, 第一 or 冠军 forwards its mapped
\* cells to the store.
C10_RankGate ==
    [][/\ C10_Step
       /\ IsRankHeader(<<"pai", "ming">>)
       /\ ~IsRankAccepted(<<"2">>)
       /\ \A marker \in { <<"1">>, <<"di2", "yi", "ming">>, <<"di2", "yi">>, <<"guan", "jun">> } : IsRankAccepted(marker)]_vars

\* Under the header (排名, 供应商名称, 供应商地址) the row ranked 1 has put its
\* supplier into the store and the row ranked 2, read after it, forwarded
\* nothing.
C10_Witness ==
    /\ rows_done = 3
    /\ ranking_idx = Some(0)
    /\ row_seen = row_texts(R_second)
    /\ forwarded = << >>
    /\ fields[1][F_supplier].entries = << << 1, S_long >> >>
    /\ fields[1][F_supplier_addr].entries = << << 2, SA_road >> >>


\* The winner markers, as they are written in a rank cell.
WinnerMarkers == { <<"1">>, <<"di2", "yi", "ming">>, <<"di2", "yi">>, <<"guan", "jun">> }

\* The step read a row of a table whose adopted header row has a ranking
\* column.
C19_RankedStep ==
    /\ rows_done' = rows_done + 1
    /\ DOMAIN header_map /= {}
    /\ ranking_idx /= None

IsAgencyNameRow(row) ==
    /\ Len(row) = 2
    /\ Contains(row[1], <<"dai", "li2">>)
    /\ Contains(row[1], <<"ming", "cheng2">>)

\* The row is a (label, value) pair whose label resolves to 采购单位地址.
IsPurchaserAddressRow(row) ==
    /\ Len(row) = 2
    /\ label_to_field(row[1]) = F_buyer_addr

\* C21 as stated: in the pairwise scan a pair whose label resolves to
\* 采购单位地址 is discarded when the most recently seen name label of the
\* table was an agency label such as 代理机构名称.  Here the agency name is the
\* row read just before the address row, in a table without ranking column.
C21_AgencyNameSuppressesAddress ==
    [][(/\ rows_done' = rows_done + 1
        /\ rows_done >= 1
        /\ ranking_idx = None
        /\ IsAgencyNameRow(row_seen)
        /\ IsPurchaserAddressRow(row_seen')) =>
           \A k \in 1..Len(forwarded') : forwarded'[k].field /= F_buyer_addr]_vars

\* C21, the failing input: the rows (代理机构名称, 乙公司) and (采购单位地址,
\* 西城区大道一号) have been read, the tracker never saw the agency label and
\* the address is in the store.
C21_AgencyAddressStored ==
    /\ rows_done = 2
    /\ row_seen = row_texts(R_addr_pair)
    /\ last_name_field = NoField
    /\ forwarded = << [field |-> F_buyer_addr, value |-> A_west, via |-> "pair"] >>
    /\ StoredText(fields[1], F_buyer_addr) = A_west

\* The row passes the ranking gate in force when it is read.
PassesRankGate(idx, row) ==
    \/ idx = None
    \/ idx[1] >= Len(row)
    \/ row[idx[1] + 1] \in WinnerMarkers

\* Every pair (cells 2k, 2k+1) of the row whose label resolves to a field has
\* been forwarded by the pairwise scan; a 采购单位地址 pair is the exception
\* when its label holds 代理 or the name tracker says agency.
PairsForwarded(row, offers, tracker) ==
    \A k \in 0..((Len(row) \div 2) - 1) :
        LET label_text == row[2 * k + 1]
            field == label_to_field(label_text)
            sent == \E j \in 1..Len(offers) :
                        offers[j] = [field |-> field, value |-> row[2 * k + 2], via |-> "pair"]
        IN  field /= NoField =>
                IF field = F_buyer_addr /\ (Contains(label_text, <<"dai", "li2">>) \/ tracker = "agency")
                THEN ~sent ELSE sent

\* C22 as stated: every row with at least two cells that passes the ranking
\* gate is scanned pairwise, the row adopted as header included.
C22_EveryRowScanned ==
    [][(/\ rows_done' = rows_done + 1
        /\ Len(row_seen') >= 2
        /\ PassesRankGate(ranking_idx, row_seen')) =>
           PairsForwarded(row_seen', forwarded', last_name_field')]_vars

\* C22, amended: every row with at least two cells that is not the row
\* adopted as header and passes the ranking gate is scanned pairwise, before a
\* header is adopted and under an adopted header alike; the row adopted as
\* header is not scanned, and a 采购单位地址 pair is withheld under the agency
\* rule.
C22_EveryRowButHeaderScanned ==
    [][(/\ rows_done' = rows_done + 1
        /\ Len(row_seen') >= 2
        /\ PassesRankGate(ranking_idx, row_seen')
        /\ ~(DOMAIN header_map = {} /\ DOMAIN header_map' /= {})) =>
           PairsForwarded(row_seen', forwarded', last_name_field')]_vars

\* Under the adopted header (供应商名称, 供应商地址, 排名) the row (采购人名称,
\* 某市财政局) has been read: the pairwise scan forwarded the purchaser name.
C22_Witness ==
    /\ rows_done = 2
    /\ DOMAIN header_map /= {}
    /\ ranking_idx = Some(2)
    /\ row_seen = row_texts(R_pair)
    /\ \E j \in 1..Len(forwarded) :
           forwarded[j] = [field |-> F_buyer, value |-> N_city, via |-> "pair"]
    /\ StoredText(fields[1], F_buyer) = N_city
-----------------------------------------------------------------------------
(***************************************************************************)
(* Properties of text-block processing (SpecText).                         *)
(***************************************************************************)

\* The segment names a purchaser-context marker and not 代理.
HasPurchaserContext(segment) ==
    /\ \E marker \in { <<"cai2", "gou2", "ren", "xin", "xi">>, <<"cai2", "gou2", "dan", "wei", "xin", "xi">>, <<"xiang3", "mu", "lian", "xi2">>, <<"qi2", "ta", "bu2", "chong">>, <<"fu3", "jian">> } :
           Contains(segment, marker)
    /\ ~Contains(segment, <<"dai", "li2">>)

\* Segment j comes after an agency address line, with no purchaser context
\* from that line up to segment j.
AfterAgencyAddress(j) ==
    \E i \in 1..(j - 1) :
        /\ Contains(merged[i], <<"dai", "li2", "ji2", "gou", "di", "zhi", "fcolon">>)
        /\ \A k \in (i + 1)..j : ~HasPurchaserContext(merged[k])

C11_Step ==
    segment_idx' = segment_idx + 1 =>
        /\ AfterAgencyAddress(segment_idx') =>
               /\ in_agency_section'
               /\ fields'[1][F_buyer_addr] = fields[1][F_buyer_addr]
        /\ fields'[1][F_buyer_addr] /= fields[1][F_buyer_addr] => ~in_agency_section'

\* C11: in a text block with "代理机构地址：X" and later "采购单位地址：Y", no
\* purchaser-context marker between them, X is never stored as the purchaser
\* address and Y is not stored while the agency-section flag is set: a
\* purchaser address is stored only from a segment handled with the flag down.
C11_AgencySuppression ==
    /\ [][C11_Step]_vars
    /\ [](StoredText(fields[1], F_buyer_addr) /= <<"xi3", "cheng4", "qu", "da", "dao", "yi", "hao">>)

\* The block "代理机构地址：X", "采购单位地址：Y" has been handled: the flag is
\* up and the purchaser address store is empty.
C11_Witness ==
    /\ text_pc = "returned"
    /\ merged = << TL_agency_addr, TL_buyer_addr >>
    /\ in_agency_section
    /\ fields[1][F_buyer_addr].entries = << >>

-----------------------------------------------------------------------------
(***************************************************************************)
(* Claims about extract()                                                  *)
(***************************************************************************)

Returned(e) == pc[e] = "returned"

\* The full text names a category outright.
NamesCategory(text) ==
    \/ Contains(RemoveChars(text, WhiteSpace), <<"huo", "wu4", "lei">>)
    \/ Contains(RemoveChars(text, WhiteSpace), <<"fu2", "wu2", "lei">>)
    \/ Contains(RemoveChars(text, WhiteSpace), <<"gong3", "cheng3", "lei">>)

\* C7 as stated: extract() returns a record for every parsed tree, whatever
\* the rowspan and colspan attributes of its cells; no extractor is ever
\* left by an exception.
C7_ExtractNeverRaises == \A e \in DOMAIN pc : pc[e] /= "raised"

\* C1: a record extract() returns has exactly the nine field names as keys;
\* a field whose store holds nothing maps to the empty string, except the
\* category, which is never empty and is "其他" when its store holds nothing
\* and the full text names no category.
C1_RecordShape ==
    \A e \in DOMAIN pc :
        Returned(e) =>
            /\ DOMAIN result[e][1] = FieldNames
            /\ Cardinality(DOMAIN result[e][1]) = 9
            /\ \A f \in FieldNames \ {F_category} :
                   fields[e][f].entries = << >> => result[e][1][f] = << >>
            /\ result[e][1][F_category] /= << >>
            /\ (fields[e][F_category].entries = << >> /\ ~NamesCategory(full_text[e]))
                   => result[e][1][F_category] = CAT_OTHER

\* An extractor has returned a record with a value for one field, the empty
\* string for another and the sentinel for the category.
C1_Witness ==
    \E e \in DOMAIN pc :
        /\ Returned(e)
        /\ result[e][1][F_category] = CAT_OTHER
        /\ fields[e][F_category].entries = << >>
        /\ \E f \in FieldNames : result[e][1][f] = << >> /\ fields[e][f].entries = << >>
        /\ \E f \in FieldNames \ {F_category} : result[e][1][f] /= << >>

\* C5: the record of a document is a function of the document only: it is
\* the record a fresh extractor working alone gives, whatever the other
\* extractor did meanwhile and whatever was extracted before; so two
\* extractions of the same document give identical records.
C5_RecordIsFunctionOfDocument ==
    /\ \A e \in DOMAIN pc :
           Returned(e) => result[e] = Some(build_record(soup[e][1]).record)
    /\ \A e1, e2 \in DOMAIN pc :
           Returned(e1) /\ Returned(e2) /\ soup[e1] = soup[e2] => result[e1] = result[e2]

\* Both extractors have returned the record of the same document, one of
\* them in the place of an extractor that worked on a document with labelled
\* values before.
C5_Witness ==
    /\ built = MaxBuilds
    /\ \A e \in DOMAIN pc : Returned(e)
    /\ soup[1] = soup[2]
    /\ soup[1] = Some(Doc_text)
    /\ result[1] = result[2]
    /\ result[1][1][F_supplier] /= << >>

\* The document's text holds the literal 货物类.
HasGoodsLiteral(e) == Contains(RemoveChars(full_text[e], WhiteSpace), <<"huo", "wu4", "lei">>)

\* C12 as stated: the record of every document whose text holds the literal
\* 货物类 has the category 货物, whatever category keywords or labelled
\* category value the document holds besides.
C12_GoodsLiteralWins ==
    \A e \in DOMAIN pc :
        (Returned(e) /\ HasGoodsLiteral(e)) => result[e][1][F_category] = CAT_GOODS

\* C12, amended: a raw category value that holds 货物类 gives the single
\* category 货物 whatever keywords it holds besides; the record of a document
\* whose text holds 货物类 has the category 货物 when the category store is
\* empty or holds 其他 after all passes, and the stored category otherwise.
C12_GoodsLiteralWinsUnlessStored ==
    /\ \A raw \in { <<"huo", "wu4", "lei">>, <<"she2", "bei", "wei4", "hu", "fu2", "wu2", " ", "huo", "wu4", "lei">>, <<"gong3", "cheng3", " ", "huo", "wu4", " ", "lei", " ", "fu2", "wu2">> } :
           extract_categories(raw) = << CAT_GOODS >>
    /\ \A e \in DOMAIN pc :
           Returned(e) =>
               IF StoredText(fields[e], F_category) \in { << >>, CAT_OTHER }
               THEN HasGoodsLiteral(e) => result[e][1][F_category] = CAT_GOODS
               ELSE result[e][1][F_category] = StoredText(fields[e], F_category)

\* Records of documents with 货物类 in their text have been returned: one
\* with an empty category store, one whose labelled value holds 货物类 and
\* other keywords, and one whose labelled value names another category.
C12_Witness ==
    \E e1, e2 \in DOMAIN pc :
        /\ Returned(e1) /\ Returned(e2)
        /\ HasGoodsLiteral(e1) /\ HasGoodsLiteral(e2)
        /\ soup[e1] = Some(Doc_meta)
        /\ fields[e1][F_category].entries = << >>
        /\ result[e1][1][F_category] = CAT_GOODS
        /\ soup[e2] \in { Some(Doc_goods_keywords), Some(Doc_labelled_service) }
        /\ fields[e2][F_category].entries /= << >>

\* The four values of the scenario are in the stores of extractor e.
ScenarioStored(e) ==
    /\ StoredText(fields[e], F_project) = <<"ce", "shi8", "cai2", "gou2", "xiang3", "mu">>
    /\ StoredText(fields[e], F_buyer) = <<"mou", "shi4", "cai3", "zheng", "ju2">>
    /\ StoredText(fields[e], F_supplier) = <<"mou", "mou", "ke", "ji", "you", "xian2", "gong2", "si">>
    /\ StoredText(fields[e], F_amount) = <<"5", "0", "0", "0", "0", "0", ".", "0", "0">>

\* C16: the document of two label:value paragraphs (项目名称, 采购人名称) and
\* a table with the header row (供应商名称, 中标金额) and one data row gives
\* the record 项目名称 = 测试采购项目, 采购单位名称 = 某市财政局, 供应商名称 =
\* 某某科技有限公司, 中标金额 = 500000.00; the values are in the stores when
\* the walk is over, before the fallback pass, and the header row is not
\* stored as data.
C16_EndToEnd ==
    \A e \in DOMAIN pc :
        soup[e] = Some(Doc_scenario) =>
            /\ pc[e] \in {"walked", "patterns_done", "returned"} => ScenarioStored(e)
            /\ pc[e] /= "raised"
            /\ Returned(e) =>
                   /\ result[e][1][F_project] = <<"ce", "shi8", "cai2", "gou2", "xiang3", "mu">>
                   /\ result[e][1][F_buyer] = <<"mou", "shi4", "cai3", "zheng", "ju2">>
                   /\ result[e][1][F_supplier] = <<"mou", "mou", "ke", "ji", "you", "xian2", "gong2", "si">>
                   /\ result[e][1][F_amount] = <<"5", "0", "0", "0", "0", "0", ".", "0", "0">>
                   /\ \A f \in FieldNames :
                          result[e][1][f] \notin { <<"gong", "ying", "shang", "ming", "cheng2">>, <<"zhong", "biao", "jin", "ee">> }

\* The record of the scenario document has been returned, its table and its
\* two paragraphs handled by the walk.
C16_Witness ==
    \E e \in DOMAIN pc :
        /\ Returned(e)
        /\ soup[e] = Some(Doc_scenario)
        /\ result[e][1][F_supplier] = <<"mou", "mou", "ke", "ji", "you", "xian2", "gong2", "si">>
        /\ Len(SelectSeq(visited[e], LAMBDA v : v.kind = "table")) = 1
        /\ Len(SelectSeq(visited[e], LAMBDA v : v.kind = "block")) = 2


-----------------------------------------------------------------------------
(***************************************************************************)
(* Claims about nested tables and blocks (SpecNested).                     *)
(***************************************************************************)

\* The element is a table or has a table among its descendants.
RECURSIVE HoldsTable(_)
HoldsTable(element) ==
    /\ element.kind = "tag"
    /\ \/ element.name = "table"
       \/ \E i \in 1..Len(element.children) : HoldsTable(element.children[i])

\* What _walk_dom handed on during the extraction of extractor e: no table
\* twice, and nothing that lies below a table.
TablesOnce(e) ==
    /\ \A i, j \in 1..Len(visited[e]) :
           (visited[e][i] = visited[e][j]) /\ visited[e][i].kind = "table" => i = j
    /\ \A i \in 1..Len(visited[e]) : ~HasTableParent(soup[e][1], visited[e][i].path)

\* No block handed to _process_text_block has a table inside it, so its text
\* holds no text of a table.
BlocksHoldNoTable(e) ==
    \A i \in 1..Len(visited[e]) :
        visited[e][i].kind = "block" =>
            ~HoldsTable(ElementAt(soup[e][1], visited[e][i].path))

\* C23 as stated: each table goes to table extraction at most once, no
\* descendant of a table is walked or handed to the text-block processor, and
\* the text inside a table reaches the stores only through the table's
\* matrix.
C23_TableTextOnlyThroughMatrix ==
    \A e \in DOMAIN pc :
        soup[e] /= None => TablesOnce(e) /\ BlocksHoldNoTable(e)

\* C23, amended: each table goes to table extraction at most once and no
\* descendant of a table is walked or handed to the text-block processor by
\* itself; a block element that encloses a table is handed to the text-block
\* processor with the table's text in its own, so the text inside a table can
\* reach the stores outside the matrix.
C23_TablesOnceDescendantsSkipped ==
    \A e \in DOMAIN pc :
        soup[e] /= None =>
            /\ TablesOnce(e)
            /\ (pc[e] = "walked" /\ soup[e][1] = Doc_div_table) =>
                   /\ visited[e] = << [kind |-> "block", path |-> << 1, 2, 1 >>],
                                      [kind |-> "table", path |-> << 1, 2, 1, 1 >>] >>
                   /\ fields[e][F_buyer].entries = << << 1, N_city >> >>

\* The walk of the document with a div around its table is over: the div went
\* to the text-block processor, the table to table extraction once, and the
\* purchaser in the store came from the text of the div.
C23_Witness ==
    \E e \in DOMAIN pc :
        /\ pc[e] = "walked"
        /\ soup[e] = Some(Doc_div_table)
        /\ Len(visited[e]) = 2
        /\ StoredText(fields[e], F_buyer) = N_city

\* The placements _extract_table makes for a table: <<r, k, cell>> when the
\* k-th cell it finds for the r-th tr of the table is the cell at that path.
Placements(table, path) ==
    LET trs == find_all(table, path, {"tr"})
    IN  UNION { { << r, k, find_all(trs[r][2], trs[r][1], {"th", "td"})[k][1] >> :
                    k \in 1..Len(find_all(trs[r][2], trs[r][1], {"th", "td"})) } :
                r \in 1..Len(trs) }

\* The tr at tr_path is the row the cell at cell_path belongs to: no other tr
\* lies between them.
IsOwnRow(document, tr_path, cell_path) ==
    \A n \in (Len(tr_path) + 1)..(Len(cell_path) - 1) :
        ElementAt(document, SubSeq(cell_path, 1, n)).name /= "tr"

\* C24 as stated: nested tables are not double-processed: every cell of a
\* table handed to _extract_table is placed at most once, as a cell of its own
\* row; the cells of a nested table are not placed as cells of the enclosing
\* row as well.
C24_NestedCellsPlacedOnce ==
    \A e \in DOMAIN pc :
        soup[e] /= None =>
            \A i \in 1..Len(visited[e]) :
                visited[e][i].kind = "table" =>
                    LET path == visited[e][i].path
                        table == ElementAt(soup[e][1], path)
                        trs == find_all(table, path, {"tr"})
                    IN  \A p, q \in Placements(table, path) :
                            /\ p[3] = q[3] => p = q
                            /\ IsOwnRow(soup[e][1], trs[p[1]][1], p[3])

\* C24, the failing input: the table with a table in its second cell has been
\* extracted once, as a whole; its matrix has the cells of the inner row in
\* the outer row too, and the inner row again as a row of its own.
C24_NestedCellsPlacedTwice ==
    \E e \in DOMAIN pc :
        /\ pc[e] = "walked"
        /\ soup[e] = Some(Doc_nested_table)
        /\ visited[e] = << [kind |-> "table", path |-> << 1, 2, 1 >>] >>
        /\ build_matrix(ElementAt(Doc_nested_table, << 1, 2, 1 >>), << 1, 2, 1 >>).matrix =
               << MatrixRow(<< <<"gong", "ying", "shang", "ming", "cheng2">>, <<"gong", "ying", "shang", "di", "zhi", " ", "dong2", "cheng4", "qu", "yi", "hao">>,
                               <<"gong", "ying", "shang", "di", "zhi">>, <<"dong2", "cheng4", "qu", "yi", "hao">> >>),
                  MatrixRow(<< <<"gong", "ying", "shang", "di", "zhi">>, <<"dong2", "cheng4", "qu", "yi", "hao">> >>) >>
-----------------------------------------------------------------------------
(***************************************************************************)
(* Claims about the fallback pass.                                         *)
(***************************************************************************)

\* The matches of the patterns of a field in the text, pattern after pattern
\* and each pattern's matches from left to right.
RECURSIVE AllMatches(_, _, _)
AllMatches(text, field, k) ==
    IF k > Len(FULL_TEXT_PATTERNS(field)) THEN << >>
    ELSE finditer(text, FULL_TEXT_PATTERNS(field)[k]) \o AllMatches(text, field, k + 1)

\* The matches whose value leaves a candidate when offered to the field.
Leaving(field, matches) ==
    { k \in 1..Len(matches) : add_field_values(field, matches[k].value) /= << >> }

\* The values that the first match that leaves a candidate may store.
FirstLeft(field, matches) ==
    LET values == add_field_values(field, matches[SetMin(Leaving(field, matches))].value)
    IN  { Strip(values[i]) : i \in 1..Len(values) }

\* extract() of extractor e runs the fallback pass in this step.
FallbackStep(e) == pc[e] = "walked" /\ pc'[e] = "patterns_done"

\* C25: the fallback pass leaves every field that holds an entry as it is,
\* and a field without entry ends up with the value of the first match, in
\* pattern order and text order, that leaves a candidate, or without entry
\* when no match leaves one.
C25_FallbackOnlyFillsEmpty ==
    [][\A e \in Extractors : FallbackStep(e) =>
        \A field \in DOMAIN fields[e] :
            IF fields[e][field].entries /= << >>
            THEN fields'[e][field] = fields[e][field]
            ELSE IF Leaving(field, AllMatches(full_text[e], field, 1)) = {}
            THEN fields'[e][field] = fields[e][field]
            ELSE /\ Len(fields'[e][field].entries) = 1
                 /\ fields'[e][field].entries[1][2]
                        \in FirstLeft(field, AllMatches(full_text[e], field, 1))]_vars

\* The fallback pass is over for extractors of three documents: one in
\* which a field was stored by the walk and matches in the text too, one in
\* which the first match left nothing and the second did, and one in which
\* the second match would have had the better score.
C25_Witness ==
    \E e1, e2 \in Extractors :
        /\ pc[e1] = "patterns_done"
        /\ soup[e1] = Some(Doc_walked_loose)
        /\ fields[e1][F_buyer].entries = << << 1, <<"xiang2", "jian4", "fu3", "jian">> >> >>
        /\ fields[e1][F_buyer_addr].entries = << << 2, <<"dong2", "cheng4", "qu", "yi", "hao">> >> >>
        /\ pc[e2] = "returned"
        /\ \/ /\ soup[e2] = Some(Doc_loose_dates)
              /\ fields[e2][F_date].entries = << << 1, <<"2", "0", "2", "2", "nian", "1", "1", "yue", "3", "0", "ri">> >> >>
           \/ /\ soup[e2] = Some(Doc_long_amounts)
              /\ fields[e2][F_amount].entries = << << 1, <<"5", "0", "0", "0", "0", "0", ".", "0", "0">> >> >>
              /\ Len(AllMatches(full_text[e2], F_amount, 1)) = 2
-----------------------------------------------------------------------------
(***************************************************************************)
(* The agency-section flag from one text block to the next (SpecNested).   *)
(***************************************************************************)

\* The block elements of a document, as <<path, element>>, in document order.
BlocksOf(document) == find_all(document, << >>, BLOCK_TAGS)

\* The text of the element names the purchaser address with a value and
\* names no agency.
NamesAddressOnly(element) ==
    /\ Contains(get_text(element, << "nl" >>, TRUE), <<"cai2", "gou2", "dan", "wei", "di", "zhi", "fcolon", "dong2">>)
    /\ \A marker \in { <<"dai", "li2", "ji2", "gou">>, <<"cai2", "gou2", "dai", "li2">>, <<"zhao", "biao", "dai", "li2">>, <<"zhong", "jie", "ji2", "gou">> } :
           ~Contains(get_text(element, << "nl" >>, TRUE), marker)

\* C28: the agency-section flag is local to one _process_text_block call and
\* down at its start: after the walk, a block outside the tables whose own
\* text has a purchaser address and no agency mention has left an address in
\* the store, whatever the blocks handled before it mention, and a block
\* nested in a block that mentions the agency is handled again by itself.
C28_FlagLocalToBlock ==
    \A e \in DOMAIN pc :
        pc[e] = "walked" =>
            /\ \A block \in SeqRange(BlocksOf(soup[e][1])) :
                  (~HasTableParent(soup[e][1], block[1]) /\ NamesAddressOnly(block[2]))
                      => fields[e][F_buyer_addr].entries /= << >>
            /\ soup[e][1] = Doc_agency_nested =>
                  /\ visited[e] = << [kind |-> "block", path |-> << 1, 2, 1 >>],
                                     [kind |-> "block", path |-> << 1, 2, 1, 1 >>],
                                     [kind |-> "block", path |-> << 1, 2, 1, 2 >>] >>
                  /\ fields[e][F_buyer_addr].entries = << << 1, A_east >> >>

\* The walk of the document with the paragraphs inside the agency block is
\* over: the div, which names the agency before the address, left nothing,
\* and the second paragraph, handled after the div and the first paragraph,
\* left the address.
C28_Witness ==
    \E e \in DOMAIN pc :
        /\ pc[e] = "walked"
        /\ soup[e] = Some(Doc_agency_nested)
        /\ Len(visited[e]) = 3
        /\ text_block_offers(<<"dai", "li2", "ji2", "gou", "xin", "xi", "nl", "cai2", "gou2", "dan", "wei", "di", "zhi", "fcolon", "dong2", "cheng4", "qu", "yi", "hao">>) = << >>
        /\ StoredText(fields[e], F_buyer_addr) = A_east
-----------------------------------------------------------------------------
(***************************************************************************)
(* The announcement date over one extraction (SpecFallback).               *)
(***************************************************************************)

\* The step constructs a new extractor in place e.
Constructs(e) == pc[e] /= "constructed" /\ pc'[e] = "constructed"

\* The content of the PubDate meta tag of the documents that have one, as
\* normalize_date_text is to give it.
PubDates ==
    [document \in { Doc_meta, Doc_meta_dates } |-> <<"2", "0", "2", "1", "nian", "0", "5", "yue", "0", "4", "ri">>]

\* C29: a stored announcement date is never replaced during an extraction:
\* every stored date has the form YYYY年MM月DD日 and the same score, so that
\* no later date beats the first one, and the record of a document with a
\* parseable PubDate meta tag carries that date whatever dates its body has.
C29_DateNeverReplaced ==
    /\ [][\A e \in Extractors :
            (fields[e][F_date].entries /= << >> /\ ~Constructs(e))
                => fields'[e][F_date] = fields[e][F_date]]_vars
    /\ [](\A e \in Extractors :
            /\ \A i \in 1..Len(fields[e][F_date].entries) :
                  /\ HasDateShape(fields[e][F_date].entries[i][2])
                  /\ score_field_value(F_date, fields[e][F_date].entries[i][2], << >>)
                         = Len(<<"2", "0", "2", "1", "nian", "0", "5", "yue", "0", "4", "ri">>)
            /\ (pc[e] = "returned" /\ soup[e][1] \in DOMAIN PubDates)
                   => result[e][1][F_date] = PubDates[soup[e][1]])

\* The record of the document with a PubDate meta tag and two later dates in
\* its body has been returned with the date of the meta tag, and so has the
\* record of the document with two dates in paragraphs, with the first.
C29_Witness ==
    \E e1, e2 \in Extractors :
        /\ pc[e1] = "returned" /\ soup[e1] = Some(Doc_meta_dates)
        /\ result[e1][1][F_date] = <<"2", "0", "2", "1", "nian", "0", "5", "yue", "0", "4", "ri">>
        /\ fields[e1][F_date].entries = << << 1, <<"2", "0", "2", "1", "nian", "0", "5", "yue", "0", "4", "ri">> >> >>
        /\ pc[e2] = "returned" /\ soup[e2] = Some(Doc_body_dates)
        /\ result[e2][1][F_date] = <<"2", "0", "2", "2", "nian", "1", "1", "yue", "3", "0", "ri">>
-----------------------------------------------------------------------------
(***************************************************************************)
(* Claims about batches                                                    *)
(***************************************************************************)

\* Processing the file the loop takes next raises.
NextFileRaises ==
    IF batch = "directory" THEN file_outcome(files[file_idx + 1]).raised
    ELSE files[file_idx + 1].convert.raised \/ files[file_idx + 1].extracted.raised

\* A round of the loop: a file whose processing raises adds one to the
\* failed count and no record, any other file adds one to the success count
\* and one record; either way the loop goes on to the next file.
C6_Round ==
    (batch_pc = "loop" /\ file_idx' = file_idx + 1) =>
        /\ batch_pc' = "loop"
        /\ IF NextFileRaises
           THEN /\ stats'.failed = stats.failed + 1
                /\ stats'.success = stats.success
                /\ records' = records
           ELSE /\ stats'.failed = stats.failed
                /\ stats'.success = stats.success + 1
                /\ Len(records') = Len(records) + 1

\* What holds when the batch has returned.
C6_AtReturn ==
    batch_pc = "returned" =>
        /\ file_idx = Len(files)
        /\ stats.total = Len(files)
        /\ stats.total = stats.success + stats.failed
        /\ Len(records) = stats.success

\* C6: in extract_directory and in process_documents an exception raised
\* while one document is processed is caught, counts as failed, gives no
\* record and does not stop the loop; when the batch ends every file has
\* been taken, total = success + failed and there are success records.
C6_FailuresAreCounted == [][C6_Round]_vars /\ [](C6_AtReturn)

\* A batch has returned in which the first file failed and a later file gave
\* a record.
C6_Witness ==
    /\ batch_pc = "returned"
    /\ Len(files) = MaxFiles
    /\ stats.failed >= 1
    /\ stats.success >= 1
    /\ IF batch = "directory" THEN files[1] = HtmlFile(Doc_span) ELSE files[1].extracted.raised
    /\ Len(records) = stats.success


-----------------------------------------------------------------------------
(***************************************************************************)
(* Claims about collect_html_paths (SpecCollect).                          *)
(***************************************************************************)

NoPathTwice(paths) == \A i, j \in 1..Len(paths) : paths[i] = paths[j] => i = j

AscendingPaths(paths) == \A i \in 1..(Len(paths) - 1) : PathLess(paths[i], paths[i + 1])

\* C17 as stated: the list collect_html_paths returns holds no path twice and
\* is in ascending path order as a whole, for every tree and pattern list.
\* The code sorts the matches of each pattern and concatenates them.
C17_DeduplicatedSorted ==
    collect_pc = "returned" => NoPathTwice(found) /\ AscendingPaths(found)

\* C17, what the code does give: the result is the concatenation, pattern by
\* pattern, of the sorted matches; every matching file is in it and nothing
\* else is.
C17_SortedPerPattern ==
    collect_pc = "returned" =>
        /\ found = collect_html_paths(root, patterns)
        /\ SeqRange(found) = UNION { rglob(root, patterns[i]) : i \in 1..Len(patterns) }

\* C17, a failing input: the default patterns on a directory with a.htm and b.html: b.html is
\* returned before a.htm.
C17_DefaultOutOfOrder ==
    /\ collect_pc = "returned"
    /\ patterns = DEFAULT_PATTERNS
    /\ root = { << <<"a", ".", "h", "t", "m">> >>, << <<"b", ".", "h", "t", "m", "l">> >> }
    /\ found = << << <<"b", ".", "h", "t", "m", "l">> >>, << <<"a", ".", "h", "t", "m">> >> >>

\* C17, a failing input: a file that matches two patterns of the list is returned twice.
C17_ReturnedTwice ==
    /\ collect_pc = "returned"
    /\ root = { << <<"b", ".", "h", "t", "m", "l">> >> }
    /\ found = << << <<"b", ".", "h", "t", "m", "l">> >>, << <<"b", ".", "h", "t", "m", "l">> >> >>

-----------------------------------------------------------------------------
(***************************************************************************)
(* Claims about the label matcher (SpecLabel).                             *)
(***************************************************************************)

\* The canonical label is a fragment of alias k: a substring of it that is not
\* equal to it and does not contain it.
IsFragmentOf(k) ==
    LET normalized == normalize_label_text(label)
        alias_norm == AliasPairs[k][2]
    IN  /\ normalized /= << >>
        /\ normalized /= alias_norm
        /\ ~Contains(normalized, alias_norm)
        /\ Contains(alias_norm, normalized)

\* The raw label holds the qualifying prefix token of an address field.
HasQualifyingPrefix(field) ==
    \/ field = F_buyer_addr /\ Contains(label, <<"cai2", "gou2">>)
    \/ field = F_supplier_addr /\ Contains(label, <<"gong", "ying", "shang">>)

\* The label is nothing but a fragment of aliases: every alias that scores it
\* does so through the fragment rule.
OnlyAFragment ==
    /\ \E k \in 1..Len(AliasPairs) : IsFragmentOf(k)
    /\ \A k \in 1..Len(AliasPairs) :
           ~IsFragmentOf(k) =>
               /\ normalize_label_text(label) /= AliasPairs[k][2]
               /\ ~Contains(normalize_label_text(label), AliasPairs[k][2])

\* C18 as stated: a fragment of an alias scores len(label) only for an address
\* field whose prefix token is in the raw label, and nothing otherwise, so a
\* label that is only a fragment (地址, 名称) resolves to none.
C18_FragmentsOnlyForAddresses ==
    best_field /= None =>
        /\ \A k \in 1..Len(AliasPairs) :
               IsFragmentOf(k) =>
                   alias_scores[k] =
                       IF HasQualifyingPrefix(AliasPairs[k][1])
                       THEN Len(normalize_label_text(label)) ELSE 0
        /\ (OnlyAFragment /\ \A f \in AddressFields : ~HasQualifyingPrefix(f))
               => best_field = Some(NoField)

\* C18, amended: a fragment of an alias scores len(label), except that an alias
\* of an address field gives nothing when the raw label lacks the prefix token
\* of that field.  A label that is only a fragment resolves to the first field,
\* in field order, that has an alias scoring it, and to none when there is no
\* such field: 地址 resolves to none, 名称 to 项目名称.
C18_FragmentsExceptUnqualifiedAddresses ==
    best_field /= None =>
        /\ \A k \in 1..Len(AliasPairs) :
               IsFragmentOf(k) =>
                   alias_scores[k] =
                       IF AliasPairs[k][1] \in AddressFields
                          /\ ~HasQualifyingPrefix(AliasPairs[k][1])
                       THEN 0 ELSE Len(normalize_label_text(label))
        /\ OnlyAFragment =>
               LET scoring == { k \in 1..Len(AliasPairs) : alias_scores[k] > 0 }
               IN  best_field = IF scoring = {} THEN Some(NoField)
                                ELSE Some(AliasPairs[SetMin(scoring)][1])
        /\ label = <<"di", "zhi">> => best_field = Some(NoField)
        /\ label = <<"ming", "cheng2">> => best_field = Some(F_project)

\* 名称 has been looked up: it is a fragment of aliases of three fields, none
\* of them an address field, and each of those aliases scored it 2.
C18_Witness ==
    /\ label = <<"ming", "cheng2">>
    /\ best_field = Some(F_project)
    /\ OnlyAFragment
    /\ \E k \in 1..Len(AliasPairs) :
           IsFragmentOf(k) /\ AliasPairs[k][1] = F_supplier /\ alias_scores[k] = 2
====
